---- MODULE Spec2Model ----
(***************************************************************************)
(* The recycling driver (AlphaFold.forward) and the single recycling       *)
(* iteration (AlphaFoldIteration.forward) of                               *)
(* apps/paddlefold/alphafold_paddle/model/modules.py.                      *)
(*                                                                         *)
(* Python dicts are functions over a set of string keys.  A tensor that    *)
(* the network computes is a record [shape, sum, div]: the sequence `sum`  *)
(* lists, in the order of the additions, the terms that were added up, and *)
(* `div` is the number the sum was divided by.  The empty sum is the zero  *)
(* tensor.  A term records the module that produced the value and the      *)
(* inputs it read, so two computed tensors are equal only when they were   *)
(* computed the same way from the same inputs.  A batch feature is a       *)
(* record [shape, data] whose `data` lists its entries along axis 1, the   *)
(* ensemble axis.                                                          *)
(***************************************************************************)
EXTENDS Integers, Sequences, FiniteSets, TLC

(***************************************************************************)
(* Bounds of the model.                                                    *)
(***************************************************************************)
MaxRecycle == 2
MaxEnsemble == 3
MaxHeads == 3
MaxBatch == 2
MaxRes == 3
MaxSeq == 2

(***************************************************************************)
(* Program constants.                                                      *)
(***************************************************************************)
atom_type_num == 37
msa_channel == 256
pair_channel == 128
seq_channel == 384
MSA_FEAT_DIM == 49

Head_modules == {"structure_module", "predicted_lddt",
                 "predicted_aligned_error", "distogram"}

\* Head names a configuration may hold: the four of Head_modules and one
\* that has no module ("masked_msa"), in the order Python compares strings.
HeadNameOrder == <<"distogram", "masked_msa", "predicted_aligned_error",
                   "predicted_lddt", "structure_module">>

HeadNames == {HeadNameOrder[i] : i \in 1..Len(HeadNameOrder)}

PrevKeys == {"prev_pos", "prev_msa_first_row", "prev_pair"}

(***************************************************************************)
(* Python dicts.                                                           *)
(***************************************************************************)
EmptyDict == [k \in {} |-> 0]

DictUpdate(d, e) ==
    [k \in (DOMAIN d) \cup (DOMAIN e) |-> IF k \in DOMAIN e THEN e[k] ELSE d[k]]

DictDel(d, key) == [k \in (DOMAIN d) \ {key} |-> d[k]]

Min(a, b) == IF a < b THEN a ELSE b

(***************************************************************************)
(* Tensors.  A term is a record [op, feat, gen, reads]: the module output  *)
(* it is, the features it was computed from, the number of network passes  *)
(* behind it, and a digest of every recycled tensor it read.               *)
(***************************************************************************)
Term(op, feat, gen, reads) ==
    [op |-> op, feat |-> feat, gen |-> gen, reads |-> reads]

Computed(shape, term) == [shape |-> shape, sum |-> <<term>>, div |-> 1]

Zeros(shape) == [shape |-> shape, sum |-> <<>>, div |-> 1]

IsZero(t) == t.sum = <<>>

\* x += y
InplaceAdd(x, y) == [x EXCEPT !.sum = @ \o y.sum]

\* x /= n
InplaceDiv(x, n) == [x EXCEPT !.div = @ * n]

\* t[..., None]
Unsqueeze(t) == [t EXCEPT !.shape = @ \o <<1>>]

\* paddle.tile of a tensor whose entries are all the same
Tile(t, reps) == [t EXCEPT !.shape = [i \in 1..Len(@) |-> @[i] * reps[i]]]

\* v[:, start:end] of a batch feature, start and end not negative
SliceAxis1(v, start, end) ==
    LET n  == Len(v.data)
        lo == Min(start, n)
        hi == Min(end, n)
        d  == IF hi > lo THEN SubSeq(v.data, lo + 1, hi) ELSE <<>>
    IN  [shape |-> [v.shape EXCEPT ![2] = Len(d)], data |-> d]

\* v[:, i] of a batch feature, 0 <= i < v.shape[1]
IndexAxis1(v, i) ==
    [shape |-> <<v.shape[1]>> \o SubSeq(v.shape, 3, Len(v.shape)),
     data |-> v.data[i + 1]]

\* What a module that reads tensor t records of it: its shape, its divisor
\* and, of each summand, the output, the features and the passes behind it.
Digest(t) ==
    [shape |-> t.shape, div |-> t.div,
     sum |-> [i \in 1..Len(t.sum) |->
                 [op |-> t.sum[i].op, feat |-> t.sum[i].feat,
                  gen |-> t.sum[i].gen]]]

SetMax(S) == IF S = {} THEN 0 ELSE CHOOSE m \in S : \A x \in S : x <= m

\* the number of network passes behind tensor t, 0 for the zero tensor
Gen(t) == SetMax({t.sum[i].gen : i \in 1..Len(t.sum)})

(***************************************************************************)
(* The network modules.                                                    *)
(***************************************************************************)

\* The recycling keys EmbeddingsAndEvoformer.forward reads: prev_pos under
\* config.recycle_pos, the other two under config.recycle_features, each
\* only when the key is in the batch.
RecycledKeys(cfg, b) ==
    {k \in PrevKeys \cap DOMAIN b :
        IF k = "prev_pos" THEN cfg.recycle_pos ELSE cfg.recycle_features}

\* EmbeddingsAndEvoformer.forward: the four representations, each computed
\* from the features of the member and the recycling inputs that are read.
EmbeddingsAndEvoformer(cfg, b) ==
    LET B     == b["aatype"].shape[1]
        N     == b["aatype"].shape[2]
        S     == b["msa_feat"].shape[2]
        feat  == [k \in (DOMAIN b) \ PrevKeys |-> b[k].data]
        reads == [k \in RecycledKeys(cfg, b) |-> Digest(b[k])]
        gen   == 1 + SetMax({Gen(b[k]) : k \in RecycledKeys(cfg, b)})
        Out(op, shape) == Computed(shape, Term(op, feat, gen, reads))
    IN  [single        |-> Out("single", <<B, N, seq_channel>>),
         pair          |-> Out("pair", <<B, N, N, pair_channel>>),
         msa           |-> Out("msa", <<B, S, N, msa_channel>>),
         msa_first_row |-> Out("msa_first_row", <<B, N, msa_channel>>)]

\* folding.StructureModule: the atom positions, and the activations it
\* contributes to the representations for the heads that run after it.
StructureModule(representations, batch0) ==
    LET B    == batch0["aatype"].shape[1]
        N    == batch0["aatype"].shape[2]
        feat == [aatype |-> batch0["aatype"].data,
                 single |-> Digest(representations["single"]),
                 pair   |-> Digest(representations["pair"])]
        gen  == SetMax({Gen(representations["single"]),
                        Gen(representations["pair"])})
        Out(op, shape) == Computed(shape, Term(op, feat, gen, EmptyDict))
    IN  [final_atom_positions |->
             Out("final_atom_positions", <<B, N, atom_type_num, 3>>),
         representations |->
             [structure_module |->
                 Out("structure_module", <<B, N, seq_channel>>)]]

PredictedLDDTHead(representations, batch0) ==
    [logits |-> [op |-> "predicted_lddt",
                 of |-> Digest(representations["structure_module"])]]

PredictedAlignedErrorHead(representations, batch0) ==
    [logits |-> [op |-> "predicted_aligned_error",
                 of |-> Digest(representations["pair"])],
     breaks |-> [op |-> "linspace"]]

DistogramHead(representations, batch0) ==
    [logits    |-> [op |-> "distogram", of |-> Digest(representations["pair"])],
     bin_edges |-> [op |-> "linspace"]]

\* getattr(self, head_name_)(representations, batch0)
RunHeadModule(head_name, representations, batch0) ==
    CASE head_name = "structure_module" ->
             StructureModule(representations, batch0)
      [] head_name = "predicted_lddt" ->
             PredictedLDDTHead(representations, batch0)
      [] head_name = "predicted_aligned_error" ->
             PredictedAlignedErrorHead(representations, batch0)
      [] head_name = "distogram" ->
             DistogramHead(representations, batch0)

(***************************************************************************)
(* AlphaFoldIteration.__init__ and _get_heads.                             *)
(***************************************************************************)

\* sorted(self.config.heads.items()): the items by name, names being unique
SortedItems(heads) ==
    LET Present(n) == \E i \in 1..Len(heads) : heads[i].name = n
        names == SelectSeq(HeadNameOrder, Present)
    IN  [j \in 1..Len(names) |->
            heads[CHOOSE i \in 1..Len(heads) : heads[i].name = names[j]]]

\* IsUsedHead with the weight of the head not looked at
IsUsedHeadAnyWeight(item) == item.name \in Head_modules

\* IsUsedHead with the name of the head not looked at
IsUsedHeadAnyName(item) == item.weight # 0

IsUsedHead(item) == item.weight # 0 /\ item.name \in Head_modules

\* self.used_heads after construction
UsedHeads(heads) ==
    LET used == SelectSeq(SortedItems(heads), IsUsedHead)
    IN  [j \in 1..Len(used) |-> used[j].name]

\* GetHeads with the heads left in sorted order
GetHeadsSorted(used) == used

NotStructureModule(h) == h # "structure_module"

\* the head names _get_heads yields, once its assertion has passed
GetHeads(used) == <<"structure_module">> \o SelectSeq(used, NotStructureModule)

(***************************************************************************)
(* AlphaFold.forward: its local functions.                                 *)
(***************************************************************************)

\* InitialPrev with prev_pair tiled like prev_msa_first_row
InitialPrevFlatPair(bt) ==
    LET aatype0  == IndexAxis1(bt["aatype"], 0)
        zeros_bn == Zeros(aatype0.shape)
    IN  [prev_pos |->
             Tile(Unsqueeze(Unsqueeze(zeros_bn)), <<1, 1, atom_type_num, 3>>),
         prev_msa_first_row |->
             Tile(Unsqueeze(zeros_bn), <<1, 1, msa_channel>>),
         prev_pair |->
             Tile(Unsqueeze(zeros_bn), <<1, 1, pair_channel>>)]

\* zeros_bn and the initial recycling state
InitialPrev(bt) ==
    LET aatype0  == IndexAxis1(bt["aatype"], 0)
        zeros_bn == Zeros(aatype0.shape)
        num_residues == bt["aatype"].shape[3]
    IN  [prev_pos |->
             Tile(Unsqueeze(Unsqueeze(zeros_bn)), <<1, 1, atom_type_num, 3>>),
         prev_msa_first_row |->
             Tile(Unsqueeze(zeros_bn), <<1, 1, msa_channel>>),
         prev_pair |->
             Tile(Unsqueeze(Unsqueeze(zeros_bn)),
                  <<1, 1, num_residues, pair_channel>>)]

\* NumIter with the override of the batch ignored
NumIterIgnoringOverride(cfg, bt) == cfg.num_recycle

\* num_iter of a model with config.num_recycle # 0
NumIter(cfg, bt) ==
    IF "num_iter_recycling" \in DOMAIN bt
    THEN Min(bt["num_iter_recycling"].data[1], cfg.num_recycle)
    ELSE cfg.num_recycle

\* GetPrev with prev_pair taken from the single representation
GetPrevPairFromSingle(r) ==
    [prev_pos           |-> r["structure_module"]["final_atom_positions"],
     prev_msa_first_row |-> r["representations"]["msa_first_row"],
     prev_pair          |-> r["representations"]["single"]]

\* _get_prev(ret)
GetPrev(r) ==
    [prev_pos           |-> r["structure_module"]["final_atom_positions"],
     prev_msa_first_row |-> r["representations"]["msa_first_row"],
     prev_pair          |-> r["representations"]["pair"]]

\* num_ensemble of _run_single_recycling under resample_msa_in_recycling
ResampledNumEnsemble(cfg, bt) == bt["aatype"].shape[2] \div (cfg.num_recycle + 1)

\* EnsembledBatch with the slice of invocation idx starting at entry idx
EnsembledBatchStrideOne(cfg, bt, idx) ==
    IF cfg.resample_msa_in_recycling
    THEN LET ne    == ResampledNumEnsemble(cfg, bt)
             start == idx
             end   == start + ne
         IN  [k \in DOMAIN bt |-> SliceAxis1(bt[k], start, end)]
    ELSE bt

\* the ensembled_batch _run_single_recycling hands to the iteration
EnsembledBatch(cfg, bt, idx) ==
    IF cfg.resample_msa_in_recycling
    THEN LET ne    == ResampledNumEnsemble(cfg, bt)
             start == idx * ne
             end   == start + ne
         IN  [k \in DOMAIN bt |-> SliceAxis1(bt[k], start, end)]
    ELSE bt

\* SliceBatch with every member given entry 0
SliceBatchMemberZero(eb, neb, i) ==
    DictUpdate([k \in DOMAIN eb |-> IndexAxis1(eb[k], 0)], neb)

\* _slice_batch(i) of AlphaFoldIteration.forward
SliceBatch(eb, neb, i) ==
    DictUpdate([k \in DOMAIN eb |-> IndexAxis1(eb[k], i)], neb)

(***************************************************************************)
(* State.                                                                  *)
(***************************************************************************)
VARIABLES
    config,               \* self.config: num_recycle, resample_msa_in_recycling,
                          \* embeddings_and_evoformer.recycle_*, heads
    used_heads,           \* AlphaFoldIteration.used_heads
    batch,                \* the batch the caller passes to AlphaFold.forward
    args,                 \* ensemble_representations, return_representations
    pc,                   \* where AlphaFold.forward stands
    prev,                 \* locals of AlphaFold.forward
    num_iter,
    recycle_idx,
    ret,
    ipc,                  \* where AlphaFoldIteration.forward stands
    ensembled_batch,      \* arguments and locals of AlphaFoldIteration.forward
    non_ensembled_batch,
    num_ensemble,
    member,               \* the loop variable i of the ensembling loop
    representations,
    msa_representation,
    iret,                 \* the dict ret of AlphaFoldIteration.forward
    head_names,           \* the heads _get_heads has still to yield
    error,                \* the exception that ended the call, or "none"
    calls,                \* history: one record per invocation of the iteration
    evoformer_inputs      \* history: what each evaluation of the evoformer in
                          \* the running invocation was given

VARIABLES
    rm_pc,                \* where the RunModel object stands: "none" when the
                          \* network is used without one, "new" before
                          \* __init__, "init_params", "ready", "predict",
                          \* "failed" when __init__ raised
    params_path,          \* the argument params_path of RunModel.__init__
    dynamic_subbatch_size,\* self.dynamic_subbatch_size
    subbatch_size,        \* self.alphafold.global_config.subbatch_size
    state_dict,           \* what set_state_dict was given, or "none"
    files,                \* the file system: the content of each cache path
    rm_error,             \* the exception the last call raised, or "none"
    predict_calls,        \* history: one record per call of predict
    preprocess_calls      \* history: one record per call of preprocess

runModelVars == <<rm_pc, params_path, dynamic_subbatch_size, subbatch_size,
                  state_dict, files, rm_error, predict_calls,
                  preprocess_calls>>

VARIABLES
    fn,                   \* the layer or function evaluated on its own, with
                          \* its configuration
    fn_args,              \* its arguments
    fn_pc,                \* where its evaluation stands
    locals,               \* its local variables, by name
    fn_ret                \* <<what it returned>>, <<>> before it returns

moduleVars == <<fn, fn_args, fn_pc, locals, fn_ret>>

\* what AlphaFold.forward only reads, or does not touch
inputVars == <<config, used_heads, batch, args, runModelVars, moduleVars>>
driverVars == <<pc, prev, num_iter, recycle_idx, ret>>
iterVars == <<ensembled_batch, non_ensembled_batch, num_ensemble, member,
              representations, msa_representation, iret, head_names>>
histVars == <<calls, evoformer_inputs>>
vars == <<inputVars, driverVars, ipc, iterVars, error, histVars>>

(***************************************************************************)
(* The inputs: configurations, batches and arguments.                      *)
(***************************************************************************)
Item(n, w) == [name |-> n, weight |-> w]

\* config.heads with at most n entries: any names, in any order, each with
\* a zero or a non-zero weight
HeadConfigs(n) ==
    LET raw == UNION {[1..k -> HeadNames \X {0, 1}] : k \in 0..n}
        ok(s) == \A i, j \in DOMAIN s : i # j => s[i][1] # s[j][1]
    IN  {[i \in DOMAIN s |-> Item(s[i][1], s[i][2])] : s \in {t \in raw : ok(t)}}

\* the head configurations the recycling runs are checked with: every head
\* on, and the structure module off
RecyclingHeadConfigs ==
    { <<Item("predicted_lddt", 1), Item("structure_module", 1),
        Item("masked_msa", 1), Item("distogram", 1),
        Item("predicted_aligned_error", 1)>>,
      <<Item("distogram", 1), Item("structure_module", 0)>> }

\* A batch of B examples, E entries on the ensemble axis, N residues and S
\* sequences.  The entries of the ensemble axis differ from one another
\* when `distinct`, as MSA resamplings do; o >= 0 is the value of the
\* feature num_iter_recycling, and o < 0 says the batch has none.
MakeBatch(B, E, N, S, distinct, o) ==
    LET data == [j \in 1..E |-> IF distinct THEN j ELSE 1]
        feats == [aatype     |-> [shape |-> <<B, E, N>>, data |-> data],
                  seq_length |-> [shape |-> <<B, E>>, data |-> data],
                  msa_feat   |-> [shape |-> <<B, E, S, N, MSA_FEAT_DIM>>,
                                  data |-> data]]
    IN  IF o < 0 THEN feats
        ELSE DictUpdate(feats,
                 [num_iter_recycling |->
                     [shape |-> <<B, E>>, data |-> [j \in 1..E |-> o]]])

MakeConfig(R, resample, recycle_pos, recycle_features, heads) ==
    [num_recycle |-> R,
     resample_msa_in_recycling |-> resample,
     recycle_pos |-> recycle_pos,
     recycle_features |-> recycle_features,
     heads |-> heads]

Idle ==
    /\ pc = "start"
    /\ prev = EmptyDict
    /\ num_iter = 0
    /\ recycle_idx = 0
    /\ ret = EmptyDict
    /\ ipc = "idle"
    /\ ensembled_batch = EmptyDict
    /\ non_ensembled_batch = EmptyDict
    /\ num_ensemble = 0
    /\ member = 0
    /\ representations = EmptyDict
    /\ msa_representation = EmptyDict
    /\ iret = EmptyDict
    /\ head_names = <<>>
    /\ error = "none"
    /\ calls = <<>>
    /\ evoformer_inputs = <<>>

\* Runs of the recycling driver on one example of two residues: every
\* num_recycle, override, ensemble size and flag, the ensemble axis holding
\* (num_recycle + 1) * E entries under resampling and E entries otherwise.
InitRecycling ==
    /\ \E R \in 0..MaxRecycle, resample \in BOOLEAN,
          heads \in RecyclingHeadConfigs :
          config = MakeConfig(R, resample, TRUE, TRUE, heads)
    /\ \E E \in 1..MaxEnsemble, distinct \in BOOLEAN,
          o \in -1..(MaxRecycle + 1) :
          batch = MakeBatch(1,
                      IF config.resample_msa_in_recycling
                      THEN (config.num_recycle + 1) * E ELSE E,
                      2, 1, distinct, o)
    /\ args \in [ensemble_representations : BOOLEAN,
                 return_representations : BOOLEAN]

\* Runs of one iteration under every head configuration.
InitHeads ==
    /\ \E heads \in HeadConfigs(MaxHeads) :
          config = MakeConfig(0, FALSE, TRUE, TRUE, heads)
    /\ batch = MakeBatch(1, 1, 2, 1, TRUE, -1)
    /\ args = [ensemble_representations |-> FALSE,
               return_representations |-> TRUE]

\* Runs over batches of every size with the recycling inputs of the
\* embedding switched on and off.
InitEmbedding ==
    /\ \E R \in 0..1, recycle_pos \in BOOLEAN, recycle_features \in BOOLEAN :
          config = MakeConfig(R, FALSE, recycle_pos, recycle_features,
                              <<Item("structure_module", 1)>>)
    /\ \E B \in 1..MaxBatch, N \in 1..MaxRes, S \in 1..MaxSeq :
          batch = MakeBatch(B, 1, N, S, TRUE, -1)
    /\ args = [ensemble_representations |-> FALSE,
               return_representations |-> TRUE]

\* the network is used on its own, without a RunModel around it
NoRunModel ==
    /\ rm_pc = "none"
    /\ params_path = <<>>
    /\ dynamic_subbatch_size = FALSE
    /\ subbatch_size = 0
    /\ state_dict = "none"
    /\ files = EmptyDict
    /\ rm_error = "none"
    /\ predict_calls = <<>>
    /\ preprocess_calls = <<>>

\* no layer is evaluated on its own
NoModuleCall ==
    /\ fn = [name |-> "none"]
    /\ fn_args = <<>>
    /\ fn_pc = "none"
    /\ locals = EmptyDict
    /\ fn_ret = <<>>

Init ==
    /\ InitRecycling \/ InitHeads \/ InitEmbedding
    /\ used_heads = UsedHeads(config.heads)
    /\ Idle
    /\ NoRunModel
    /\ NoModuleCall

(***************************************************************************)
(* AlphaFold.forward.                                                      *)
(***************************************************************************)

\* The call self.alphafold_iteration(ensembled_batch, non_ensembled_batch,
\* ...) that _run_single_recycling(prev, idx) makes.
RunSingleRecycling(idx) ==
    /\ ipc = "idle"
    /\ ensembled_batch' = EnsembledBatch(config, batch, idx)
    /\ non_ensembled_batch' = prev
    /\ ipc' = "entry"
    /\ calls' = Append(calls,
                    [recycle_idx     |-> idx,
                     ensembled_batch |-> ensembled_batch',
                     heads_run       |-> <<>>,
                     returned        |-> FALSE,
                     positions       |-> EmptyDict])
    /\ evoformer_inputs' = <<>>
    /\ UNCHANGED <<num_ensemble, member, representations, msa_representation,
                   iret, head_names, error>>

\* RecyclingStart with the zero tensors created whatever num_recycle is
RecyclingStartAlwaysZeros(cfg, bt) ==
    [prev |-> InitialPrev(bt),
     num_iter |-> IF cfg.num_recycle # 0 THEN NumIter(cfg, bt) ELSE 0]

\* Lines 99-120 and 126-128: prev and num_iter before the first invocation.
RecyclingStart(cfg, bt) ==
    IF cfg.num_recycle # 0
    THEN [prev |-> InitialPrev(bt), num_iter |-> NumIter(cfg, bt)]
    ELSE [prev |-> EmptyDict, num_iter |-> 0]

\* Lines 63 and 99-128.
Forward ==
    /\ pc = "start"
    /\ prev' = RecyclingStart(config, batch).prev
    /\ num_iter' = RecyclingStart(config, batch).num_iter
    /\ recycle_idx' = 0
    /\ pc' = "loop"
    /\ UNCHANGED <<inputVars, ret, ipc, iterVars, error, histVars>>

\* Line 123: one turn of `for recycle_idx in range(num_iter)` starts.
RecycleCall ==
    /\ pc = "loop"
    /\ recycle_idx < num_iter
    /\ RunSingleRecycling(recycle_idx)
    /\ pc' = "recycling"
    /\ UNCHANGED <<inputVars, prev, num_iter, recycle_idx, ret>>

\* Lines 123-124: the iteration has returned; prev = _get_prev(ret).
RecycleReturn ==
    /\ pc = "recycling"
    /\ ipc = "returned"
    /\ ret' = iret
    /\ prev' = GetPrev(iret)
    /\ recycle_idx' = recycle_idx + 1
    /\ pc' = "loop"
    /\ ipc' = "idle"
    /\ UNCHANGED <<inputVars, num_iter, iterVars, error, histVars>>

\* Line 130: the last invocation, with recycle index num_iter.
FinalCall ==
    /\ pc = "loop"
    /\ recycle_idx >= num_iter
    /\ RunSingleRecycling(num_iter)
    /\ pc' = "final"
    /\ UNCHANGED <<inputVars, prev, num_iter, recycle_idx, ret>>

\* Returned with the representations always deleted
ReturnedWithoutRepresentations(r, return_representations) ==
    DictDel(r, "representations")

\* the dict AlphaFold.forward returns, given the last invocation's dict
Returned(r, return_representations) ==
    IF return_representations THEN r ELSE DictDel(r, "representations")

\* Lines 130-135.
FinalReturn ==
    /\ pc = "final"
    /\ ipc = "returned"
    /\ ret' = Returned(iret, args.return_representations)
    /\ pc' = "done"
    /\ ipc' = "idle"
    /\ UNCHANGED <<inputVars, prev, num_iter, recycle_idx, iterVars, error,
                   histVars>>

\* An exception of the iteration leaves AlphaFold.forward.
ForwardRaises ==
    /\ pc \in {"recycling", "final"}
    /\ ipc = "raised"
    /\ pc' = "failed"
    /\ ipc' = "idle"
    /\ UNCHANGED <<inputVars, prev, num_iter, recycle_idx, ret, iterVars,
                   error, histVars>>

(***************************************************************************)
(* AlphaFoldIteration.forward.                                             *)
(***************************************************************************)
Batch0 == SliceBatch(ensembled_batch, non_ensembled_batch, 0)

\* the record of an evaluation of the evoformer on b: the features as
\* given, the recycled tensors by their digests
LoggedInput(b) ==
    [k \in DOMAIN b |-> IF k \in PrevKeys THEN Digest(b[k]) ELSE b[k]]

\* num_ensemble as line 190 reads it
NumEnsemble(eb) == eb["seq_length"].shape[2]

\* EnsembleAssertion asking for more than one member under ensembling
EnsembleAssertionNeedsMembers(ensemble_representations, ne) ==
    IF ensemble_representations THEN ne > 1 ELSE ne = 1

\* EnsembleAssertion that always passes
EnsembleAssertionPasses(ensemble_representations, ne) == TRUE

\* whether the assertion of lines 191-192 passes
EnsembleAssertion(ensemble_representations, ne) ==
    ensemble_representations \/ ne = 1

\* Lines 190-192: the assertion fails.
IterationAssertFails ==
    /\ ipc = "entry"
    /\ ~EnsembleAssertion(args.ensemble_representations,
                          NumEnsemble(ensembled_batch))
    /\ num_ensemble' = NumEnsemble(ensembled_batch)
    /\ ipc' = "raised"
    /\ error' = "AssertionError"
    /\ UNCHANGED <<inputVars, driverVars, ensembled_batch, non_ensembled_batch,
                   member, representations, msa_representation, iret,
                   head_names, histVars>>

\* Lines 190-204: the evaluation of member 0.
IterationEntry ==
    /\ ipc = "entry"
    /\ EnsembleAssertion(args.ensemble_representations,
                         NumEnsemble(ensembled_batch))
    /\ num_ensemble' = NumEnsemble(ensembled_batch)
    /\ LET r == EmbeddingsAndEvoformer(config, Batch0)
       IN  /\ msa_representation' = r["msa"]
           /\ representations' = DictDel(r, "msa")
    /\ member' = 1
    /\ ipc' = IF args.ensemble_representations THEN "ensemble" ELSE "heads"
    /\ evoformer_inputs' = Append(evoformer_inputs, LoggedInput(Batch0))
    /\ UNCHANGED <<inputVars, driverVars, ensembled_batch, non_ensembled_batch,
                   iret, head_names, error, calls>>

\* representations[k] += representations_update[k] for every key
Accumulate(reps, update) ==
    [k \in DOMAIN reps |-> InplaceAdd(reps[k], update[k])]

\* representations[k] /= num_ensemble + 0.0 for every key
Average(reps, ne) == [k \in DOMAIN reps |-> InplaceDiv(reps[k], ne)]

\* MembersLeft with the last member left out
MembersLeftButLast(i, ne) == i < ne - 1

\* whether `for i in range(1, num_ensemble)` has a turn for i
MembersLeft(i, ne) == i < ne

\* Lines 207-211: one turn of `for i in range(1, num_ensemble)`.
EnsembleMember ==
    /\ ipc = "ensemble"
    /\ MembersLeft(member, num_ensemble)
    /\ LET b == SliceBatch(ensembled_batch, non_ensembled_batch, member)
       IN  /\ representations' =
                  Accumulate(representations, EmbeddingsAndEvoformer(config, b))
           /\ evoformer_inputs' = Append(evoformer_inputs, LoggedInput(b))
    /\ member' = member + 1
    /\ UNCHANGED <<inputVars, driverVars, ipc, ensembled_batch,
                   non_ensembled_batch, num_ensemble, msa_representation, iret,
                   head_names, error, calls>>

\* Lines 213-214: the loop is over, the sums are divided.
EnsembleAverage ==
    /\ ipc = "ensemble"
    /\ ~MembersLeft(member, num_ensemble)
    /\ representations' = Average(representations, num_ensemble)
    /\ ipc' = "heads"
    /\ UNCHANGED <<inputVars, driverVars, ensembled_batch, non_ensembled_batch,
                   num_ensemble, member, msa_representation, iret, head_names,
                   error, histVars>>

\* representations['msa'] = msa_representation
WithMsa(reps, msa) == DictUpdate(reps, [msa |-> msa])

\* GetHeadsAssertion that always passes
GetHeadsAssertionPasses(used) == TRUE

\* the assertion of line 235
GetHeadsAssertion(used) ==
    "structure_module" \in {used[j] : j \in DOMAIN used}

\* Lines 216-217 and 235: the assertion of _get_heads fails.
GetHeadsAssertFails ==
    /\ ipc = "heads"
    /\ ~GetHeadsAssertion(used_heads)
    /\ representations' = WithMsa(representations, msa_representation)
    /\ iret' = [representations |-> representations']
    /\ ipc' = "raised"
    /\ error' = "AssertionError"
    /\ UNCHANGED <<inputVars, driverVars, ensembled_batch, non_ensembled_batch,
                   num_ensemble, member, msa_representation, head_names,
                   histVars>>

\* Lines 216-220 and 235-240: the representations are complete and the
\* order of the heads is fixed.
HeadsBegin ==
    /\ ipc = "heads"
    /\ GetHeadsAssertion(used_heads)
    /\ representations' = WithMsa(representations, msa_representation)
    /\ iret' = [representations |-> representations']
    /\ head_names' = GetHeads(used_heads)
    /\ ipc' = "run_heads"
    /\ UNCHANGED <<inputVars, driverVars, ensembled_batch, non_ensembled_batch,
                   num_ensemble, member, msa_representation, error, histVars>>

\* RunHead with the head's output stored as the module returned it
RunHeadKeepsRepresentations ==
    /\ ipc = "run_heads"
    /\ head_names # <<>>
    /\ LET head_name == Head(head_names)
           out  == RunHeadModule(head_name, representations, Batch0)
       IN  /\ representations' = representations
           /\ iret' = DictUpdate(iret,
                          [k \in {head_name, "representations"} |->
                              IF k = head_name THEN out
                              ELSE representations'])
           /\ calls' = [calls EXCEPT ![Len(calls)].heads_run = Append(@, head_name)]
    /\ head_names' = Tail(head_names)
    /\ UNCHANGED <<inputVars, driverVars, ipc, ensembled_batch,
                   non_ensembled_batch, num_ensemble, member,
                   msa_representation, error, evoformer_inputs>>

\* Lines 220-230: one head runs; ret['representations'] is the dict
\* `representations` itself, so it follows the update.
RunHead ==
    /\ ipc = "run_heads"
    /\ head_names # <<>>
    /\ LET head_name == Head(head_names)
           out  == RunHeadModule(head_name, representations, Batch0)
           more == "representations" \in DOMAIN out
       IN  /\ representations' =
                  IF more THEN DictUpdate(representations, out["representations"])
                  ELSE representations
           /\ iret' = DictUpdate(iret,
                          [k \in {head_name, "representations"} |->
                              IF k = head_name
                              THEN (IF more THEN DictDel(out, "representations")
                                    ELSE out)
                              ELSE representations'])
           /\ calls' = [calls EXCEPT ![Len(calls)].heads_run = Append(@, head_name)]
    /\ head_names' = Tail(head_names)
    /\ UNCHANGED <<inputVars, driverVars, ipc, ensembled_batch,
                   non_ensembled_batch, num_ensemble, member,
                   msa_representation, error, evoformer_inputs>>

\* Line 232.
IterationReturn ==
    /\ ipc = "run_heads"
    /\ head_names = <<>>
    /\ ipc' = "returned"
    /\ calls' = [calls EXCEPT
                    ![Len(calls)].returned = TRUE,
                    ![Len(calls)].positions =
                        Digest(iret["structure_module"]["final_atom_positions"])]
    /\ UNCHANGED <<inputVars, driverVars, iterVars, error, evoformer_inputs>>

Next ==
    \/ Forward
    \/ RecycleCall
    \/ RecycleReturn
    \/ FinalCall
    \/ FinalReturn
    \/ ForwardRaises
    \/ IterationAssertFails
    \/ IterationEntry
    \/ EnsembleMember
    \/ EnsembleAverage
    \/ GetHeadsAssertFails
    \/ HeadsBegin
    \/ RunHead
    \/ IterationReturn

Spec == Init /\ [][Next]_vars

(***************************************************************************)
(* Properties of the recycling driver.                                     *)
(***************************************************************************)
HasOverride == "num_iter_recycling" \in DOMAIN batch

Override == batch["num_iter_recycling"].data[1]

\* min(o, R), or R when the batch holds no override
ClaimedNumIter ==
    IF HasOverride /\ Override < config.num_recycle
    THEN Override ELSE config.num_recycle

\* an invocation of the iteration has been made and has not been left yet
InInvocation == pc \in {"recycling", "final"}

\* C1: with num_recycle >= 1 the single-iteration routine is invoked
\* exactly min(o, R) + 1 times (R + 1 times without an override) by a call
\* of forward that returns; the recycle indices are 0, 1, ... in this order
\* up to num_iter, and an invocation starts only when every earlier one has
\* returned.
C1_InvocationCount ==
    config.num_recycle >= 1 =>
        /\ \A k \in 1..Len(calls) : calls[k].recycle_idx = k - 1
        /\ \A k \in 1..(Len(calls) - 1) : calls[k].returned
        /\ Len(calls) <= ClaimedNumIter + 1
        /\ pc = "done" =>
              /\ Len(calls) = ClaimedNumIter + 1
              /\ calls[Len(calls)].returned

C1_Witness ==
    /\ pc = "done"
    /\ config.num_recycle = 2
    /\ HasOverride /\ Override = 1
    /\ Len(calls) = 2

\* C2: every invocation after the first receives as its non-ensembled input
\* exactly the three tensors taken from the output of the invocation before
\* it: the structure module's final atom positions and the representations
\* msa_first_row and pair; each evaluation of the evoformer in it is given
\* these three and no other recycling key.
C2_RecyclingInput ==
    (InInvocation /\ Len(calls) >= 2) =>
        /\ calls[Len(calls) - 1].returned
        /\ calls[Len(calls) - 1].positions =
               Digest(ret["structure_module"]["final_atom_positions"])
        /\ non_ensembled_batch =
               [prev_pos |-> ret["structure_module"]["final_atom_positions"],
                prev_msa_first_row |-> ret["representations"]["msa_first_row"],
                prev_pair |-> ret["representations"]["pair"]]
        /\ \A i \in 1..Len(evoformer_inputs) :
              /\ (DOMAIN evoformer_inputs[i]) \ (DOMAIN batch) = PrevKeys
              /\ \A k \in PrevKeys :
                    evoformer_inputs[i][k] = Digest(non_ensembled_batch[k])

C2_Witness ==
    /\ pc = "final"
    /\ ipc = "returned"
    /\ Len(calls) = 3
    /\ Len(evoformer_inputs) = 2
    /\ Gen(non_ensembled_batch["prev_pair"]) = 2

\* the run makes no recycling iteration: num_recycle is 0, or the batch
\* holds the override 0
ZeroIterations == config.num_recycle = 0 \/ (HasOverride /\ Override = 0)

AllZeroPrev(neb) ==
    /\ DOMAIN neb = PrevKeys
    /\ \A k \in PrevKeys : IsZero(neb[k])

C4_InitialZeros ==
    (config.num_recycle >= 1 /\ Len(calls) = 1) =>
        LET B == batch["aatype"].shape[1]
            N == batch["aatype"].shape[3]
        IN  /\ calls[1].recycle_idx = 0
            /\ AllZeroPrev(non_ensembled_batch)
            /\ non_ensembled_batch["prev_pos"].shape = <<B, N, 37, 3>>
            /\ non_ensembled_batch["prev_msa_first_row"].shape =
                   <<B, N, msa_channel>>
            /\ non_ensembled_batch["prev_pair"].shape =
                   <<B, N, N, pair_channel>>

C4_Witness ==
    /\ config.num_recycle >= 1
    /\ Len(calls) = 1
    /\ ipc = "returned"
    /\ batch["aatype"].shape = <<2, 1, 3>>

\* C5: what forward returns is the dict of the invocation with recycle
\* index num_iter, the last one, and of no earlier invocation (the outputs
\* of two invocations differ as soon as the embedding reads a recycling
\* input); it holds 'representations' iff return_representations, and every
\* other entry of that dict as the invocation returned it.
C5_ReturnedDict ==
    pc = "done" =>
        /\ calls[Len(calls)].returned
        /\ calls[Len(calls)].recycle_idx = ClaimedNumIter
        /\ calls[Len(calls)].positions =
               Digest(ret["structure_module"]["final_atom_positions"])
        /\ (config.recycle_pos \/ config.recycle_features) =>
              \A k \in 1..(Len(calls) - 1) :
                  calls[k].positions #
                      Digest(ret["structure_module"]["final_atom_positions"])
        /\ ("representations" \in DOMAIN ret) <=> args.return_representations
        /\ (DOMAIN ret) \cup {"representations"} = DOMAIN iret
        /\ \A k \in DOMAIN ret : ret[k] = iret[k]

C5_Witness ==
    /\ pc = "done"
    /\ ~args.return_representations
    /\ Len(calls) = 3
    /\ Cardinality(DOMAIN ret) = 4

\* the entries of the ensemble axis of the batch
InnerBatch == Len(batch["aatype"].data)

\* E of an ensemble axis that holds (num_recycle + 1) * E entries
ClaimedE == InnerBatch \div (config.num_recycle + 1)

\* C6: under resampling the invocation with recycle index k receives, of
\* every feature, the entries k * E + 1 .. (k + 1) * E of the ensemble axis,
\* which lie on the axis and overlap the entries of no other invocation;
\* without resampling every invocation receives the batch itself.
C6_Slices ==
    /\ config.resample_msa_in_recycling =>
          /\ \A c \in 1..Len(calls) :
                LET k == calls[c].recycle_idx
                IN  /\ (k + 1) * ClaimedE <= InnerBatch
                    /\ DOMAIN calls[c].ensembled_batch = DOMAIN batch
                    /\ \A f \in DOMAIN batch :
                          /\ calls[c].ensembled_batch[f].data =
                                 [j \in 1..ClaimedE |->
                                     batch[f].data[k * ClaimedE + j]]
                          /\ calls[c].ensembled_batch[f].shape =
                                 [batch[f].shape EXCEPT ![2] = ClaimedE]
          /\ \A c, d \in 1..Len(calls) :
                c # d =>
                    LET Range(k) == (k * ClaimedE + 1)..((k + 1) * ClaimedE)
                    IN  Range(calls[c].recycle_idx)
                            \cap Range(calls[d].recycle_idx) = {}
    /\ ~config.resample_msa_in_recycling =>
          \A c \in 1..Len(calls) : calls[c].ensembled_batch = batch

C6_Witness ==
    /\ config.resample_msa_in_recycling
    /\ pc = "done"
    /\ Len(calls) = 3
    /\ ClaimedE = 2
    /\ calls[3].ensembled_batch["aatype"].data = <<5, 6>>

\* an invocation has the representations ready for its heads
HeadsReached == ipc \in {"run_heads", "returned"}

\* the evaluation of the evoformer on member i alone, 0 <= i
MemberEvaluation(i) ==
    EmbeddingsAndEvoformer(config,
        SliceBatch(ensembled_batch, non_ensembled_batch, i))

\* C7: under ensembling with E members the representations single, pair
\* and msa_first_row the heads are given are the sum of the E members'
\* evaluations divided by E, and msa is that of member 0, not averaged.
C7_EnsembleMean ==
    (args.ensemble_representations /\ HeadsReached) =>
        LET E == ensembled_batch["seq_length"].shape[2]
        IN  /\ \A k \in {"single", "pair", "msa_first_row"} :
                  representations[k] =
                      [shape |-> MemberEvaluation(0)[k].shape,
                       sum   |-> [i \in 1..E |-> MemberEvaluation(i - 1)[k].sum[1]],
                       div   |-> E]
            /\ representations["msa"] = MemberEvaluation(0)["msa"]

C7_Witness ==
    /\ args.ensemble_representations
    /\ ipc = "returned"
    /\ Len(calls) = 2
    /\ ensembled_batch["aatype"].data = <<1, 2, 3>>
    /\ representations["pair"].div = 3

\* the case of C8: ensembling over three members without resampling
ThreeMembers ==
    /\ args.ensemble_representations
    /\ ~config.resample_msa_in_recycling
    /\ InnerBatch = 3

\* C8 as stated: the three evaluations of the evoformer in one invocation
\* receive identical input.
C8_AsStated ==
    ThreeMembers =>
        \A i, j \in 1..Len(evoformer_inputs) :
            evoformer_inputs[i] = evoformer_inputs[j]

\* C8, amended: the three evaluations receive the same recycling state,
\* and evaluation i receives entry i of the ensemble axis of every
\* feature; their inputs are identical when these entries are.
C8_MemberInputs ==
    ThreeMembers =>
        /\ Len(evoformer_inputs) <= 3
        /\ HeadsReached => Len(evoformer_inputs) = 3
        /\ \A i \in 1..Len(evoformer_inputs) :
              /\ DOMAIN evoformer_inputs[i] =
                     (DOMAIN batch) \cup (DOMAIN non_ensembled_batch)
              /\ \A f \in DOMAIN batch :
                    /\ evoformer_inputs[i][f].data = batch[f].data[i]
                    /\ evoformer_inputs[i][f].shape =
                           <<batch[f].shape[1]>>
                               \o SubSeq(batch[f].shape, 3, Len(batch[f].shape))
              /\ \A k \in DOMAIN non_ensembled_batch :
                    evoformer_inputs[i][k] = Digest(non_ensembled_batch[k])

C8_Witness ==
    /\ ThreeMembers
    /\ Len(calls) = 2
    /\ Len(evoformer_inputs) = 3
    /\ batch["aatype"].data = <<1, 2, 3>>

\* the running invocation was given exactly one ensemble member
OneMember == Len(calls) >= 1 /\ ensembled_batch["seq_length"].shape[2] = 1

\* C9 as stated: with ensembling requested and one member present the
\* iteration fails instead of producing a result.
C9_AsStated ==
    (args.ensemble_representations /\ OneMember) => ipc # "returned"

\* C9, amended: with ensembling requested and one member present the
\* iteration evaluates the evoformer once and hands its output, divided by
\* 1, to the heads; it raises only if the structure module is not active.
\* The contract that is enforced at the first use is the opposite one:
\* without ensembling, a number of members other than 1 fails the assertion
\* before any evaluation.
C9_OneMember ==
    /\ (args.ensemble_representations /\ OneMember /\ ipc \notin {"idle", "entry"}) =>
          /\ Len(evoformer_inputs) = 1
          /\ ipc = "raised" => ~GetHeadsAssertion(used_heads)
          /\ HeadsReached =>
                \A k \in {"single", "pair", "msa_first_row", "msa"} :
                    representations[k] = MemberEvaluation(0)[k]
    /\ (~args.ensemble_representations /\ Len(calls) >= 1 /\ ~OneMember
            /\ ipc \notin {"idle", "entry"}) =>
          /\ ipc = "raised"
          /\ error = "AssertionError"
          /\ evoformer_inputs = <<>>

C9_Witness ==
    /\ args.ensemble_representations
    /\ OneMember
    /\ ipc = "returned"
    /\ pc = "final"

\* the heads with a module and a non-zero weight
ActiveHeads ==
    {config.heads[i].name : i \in {j \in 1..Len(config.heads) :
        config.heads[j].weight # 0 /\ config.heads[j].name \in Head_modules}}

IsActiveOtherHead(n) == n \in ActiveHeads /\ n # "structure_module"

\* structure_module, then the other active heads by name
ClaimedHeadOrder ==
    <<"structure_module">> \o SelectSeq(HeadNameOrder, IsActiveOtherHead)

\* C10: in every invocation the heads run in the order structure_module,
\* then the other active heads sorted by name, each once, whatever the
\* order of the configuration.
C10_HeadOrder ==
    \A c \in 1..Len(calls) :
        LET run == calls[c].heads_run
        IN  /\ Len(run) <= Len(ClaimedHeadOrder)
            /\ run = SubSeq(ClaimedHeadOrder, 1, Len(run))
            /\ run # <<>> => "structure_module" \in ActiveHeads
            /\ calls[c].returned => run = ClaimedHeadOrder

C10_Witness ==
    /\ Len(calls) = 2
    /\ calls[2].returned
    /\ calls[2].heads_run = <<"structure_module", "distogram",
                              "predicted_aligned_error", "predicted_lddt">>
    /\ config.heads[1].name = "predicted_lddt"

(***************************************************************************)
(* Properties of the heads.                                                *)
(***************************************************************************)

\* the names config.heads gives the weight zero
ZeroWeightHeads ==
    {config.heads[i].name : i \in {j \in 1..Len(config.heads) :
        config.heads[j].weight = 0}}

\* the heads the constructor instantiated
Instantiated == {used_heads[j] : j \in 1..Len(used_heads)}

\* C11: a head of weight zero is not instantiated, is not run by any
\* invocation and names no key of the dict of any invocation; the dict an
\* invocation returns has exactly the keys 'representations' and the names
\* of the instantiated heads.
C11_ZeroWeightHeads ==
    /\ ZeroWeightHeads \cap Instantiated = {}
    /\ ZeroWeightHeads \cap DOMAIN iret = {}
    /\ \A c \in 1..Len(calls) :
          \A j \in 1..Len(calls[c].heads_run) :
              calls[c].heads_run[j] \notin ZeroWeightHeads
    /\ ipc = "returned" =>
          DOMAIN iret = {"representations"} \cup Instantiated

C11_Witness ==
    /\ ipc = "returned"
    /\ ZeroWeightHeads = {"distogram"}
    /\ DOMAIN iret = {"representations", "structure_module", "predicted_lddt"}
    /\ Len(config.heads) = 3

(***************************************************************************)
(* RunModel of apps/paddlefold/alphafold_paddle/model/model.py: its         *)
(* construction and predict.  A path is the sequence of its characters.    *)
(***************************************************************************)
MaxPredicts == 3

\* the network's variables, which RunModel's own steps leave alone
networkVars == <<config, used_heads, batch, args, driverVars, ipc, iterVars,
                 error, histVars, moduleVars>>

\* str.endswith
EndsWith(s, suffix) ==
    /\ Len(s) >= Len(suffix)
    /\ SubSeq(s, Len(s) - Len(suffix) + 1, Len(s)) = suffix

\* the paths RunModel is constructed with
ParamsPaths ==
    { <<"m", ".", "n", "p", "z">>,
      <<"m", ".", "p", "d">>,
      <<".", "p", "d">>,
      <<"m", ".", "n", "p", "z", ".", "b", "a", "k">>,
      <<"m", ".", "p", "d", "p", "a", "r", "a", "m", "s">>,
      <<"m", ".", "N", "P", "Z">>,
      <<"n", "p", "z">>,
      <<"m", ".", "p", "k", "l">>,
      <<>> }

\* the values of config.model.global_config.subbatch_size
ConfiguredSizes == {4, 128}

\* InitParams with the extension looked for anywhere after the name
InitParamsAnyExtension(path) ==
    LET Has(ext) == \E i \in 1..Len(path) : EndsWith(SubSeq(path, 1, i), ext)
    IN  IF Has(<<".", "n", "p", "z">>)
        THEN [raised |-> "none",
              pd_params |-> [loaded_by |-> "np.load", remapped |-> TRUE,
                             path |-> path]]
        ELSE IF Has(<<".", "p", "d">>)
        THEN [raised |-> "none",
              pd_params |-> [loaded_by |-> "paddle.load", remapped |-> FALSE,
                             path |-> path]]
        ELSE [raised |-> "ValueError", pd_params |-> "none"]

\* init_params up to its last line: the parameters it is about to assign,
\* or the exception it raises
InitParams(path) ==
    IF EndsWith(path, <<".", "n", "p", "z">>)
    THEN [raised |-> "none",
          pd_params |-> [loaded_by |-> "np.load", remapped |-> TRUE,
                         path |-> path]]
    ELSE IF EndsWith(path, <<".", "p", "d">>)
    THEN [raised |-> "none",
          pd_params |-> [loaded_by |-> "paddle.load", remapped |-> FALSE,
                         path |-> path]]
    ELSE [raised |-> "ValueError", pd_params |-> "none"]

\* UpdateSubbatchSize with the thresholds themselves below the threshold
UpdateSubbatchSizeInclusive(size, seq_len, extra_msa_num) ==
    IF extra_msa_num = 5120
    THEN [raised |-> "none",
          subbatch_size |-> IF seq_len <= 200 THEN 5120 ELSE size]
    ELSE IF extra_msa_num = 1024
    THEN [raised |-> "none",
          subbatch_size |-> IF seq_len <= 600 THEN 1024 ELSE size]
    ELSE [raised |-> "ValueError", subbatch_size |-> size]

\* UpdateSubbatchSize with any other width left to the size in place
UpdateSubbatchSizeAnyWidth(size, seq_len, extra_msa_num) ==
    IF extra_msa_num = 5120
    THEN [raised |-> "none",
          subbatch_size |-> IF seq_len < 200 THEN 5120 ELSE size]
    ELSE IF extra_msa_num = 1024
    THEN [raised |-> "none",
          subbatch_size |-> IF seq_len < 600 THEN 1024 ELSE size]
    ELSE [raised |-> "none", subbatch_size |-> size]

\* update_subbatch_size(seq_len, extra_msa_num) on a model whose sub-batch
\* size is `size`: the size it leaves, and the exception it raises
UpdateSubbatchSize(size, seq_len, extra_msa_num) ==
    IF extra_msa_num = 5120
    THEN [raised |-> "none",
          subbatch_size |-> IF seq_len < 200 THEN 5120 ELSE size]
    ELSE IF extra_msa_num = 1024
    THEN [raised |-> "none",
          subbatch_size |-> IF seq_len < 600 THEN 1024 ELSE size]
    ELSE [raised |-> "ValueError", subbatch_size |-> size]

\* the features predict reads the shapes of
MakeFeat(seq_len, extra_msa_num) ==
    [aatype    |-> [shape |-> <<1, 1, seq_len>>],
     extra_msa |-> [shape |-> <<1, 1, extra_msa_num, seq_len>>]]

SeqLens == {199, 200, 599, 600}

ExtraMsaNums == {5120, 1024, 512, 5121}

Feats == {MakeFeat(n, x) : n \in SeqLens, x \in ExtraMsaNums}

\* feat['aatype'].shape[-1]
SeqLen(feat) == feat["aatype"].shape[Len(feat["aatype"].shape)]

\* feat['extra_msa'].shape[-2]
ExtraMsaNum(feat) == feat["extra_msa"].shape[Len(feat["extra_msa"].shape) - 1]

\* one network, used through RunModel; no file exists
InitRunModel ==
    /\ config = MakeConfig(0, FALSE, TRUE, TRUE, <<Item("structure_module", 1)>>)
    /\ used_heads = UsedHeads(config.heads)
    /\ batch = MakeBatch(1, 1, 2, 1, TRUE, -1)
    /\ args = [ensemble_representations |-> TRUE,
               return_representations |-> TRUE]
    /\ Idle
    /\ NoModuleCall
    /\ rm_pc = "new"
    /\ params_path \in ParamsPaths
    /\ dynamic_subbatch_size \in BOOLEAN
    /\ subbatch_size \in ConfiguredSizes
    /\ state_dict = "none"
    /\ files = EmptyDict
    /\ rm_error = "none"
    /\ predict_calls = <<>>
    /\ preprocess_calls = <<>>

\* Lines 81-89: the fields are set and the network is built.
RunModelInit ==
    /\ rm_pc = "new"
    /\ rm_pc' = "init_params"
    /\ UNCHANGED <<networkVars, params_path, dynamic_subbatch_size,
                   subbatch_size, state_dict, files, rm_error, predict_calls,
                   preprocess_calls>>

\* Lines 90-91 and 94-110: the parameters are read and assigned, and the
\* network is put in evaluation mode.
InitParamsAssigns ==
    /\ rm_pc = "init_params"
    /\ InitParams(params_path).raised = "none"
    /\ state_dict' = InitParams(params_path).pd_params
    /\ rm_pc' = "ready"
    /\ UNCHANGED <<networkVars, params_path, dynamic_subbatch_size,
                   subbatch_size, files, rm_error, predict_calls,
                   preprocess_calls>>

\* Lines 107-108: init_params raises, and so does __init__.
InitParamsRaises ==
    /\ rm_pc = "init_params"
    /\ InitParams(params_path).raised # "none"
    /\ rm_error' = InitParams(params_path).raised
    /\ rm_pc' = "failed"
    /\ UNCHANGED <<networkVars, params_path, dynamic_subbatch_size,
                   subbatch_size, state_dict, files, predict_calls,
                   preprocess_calls>>

\* the sub-batch size predict leaves before it calls the network, and the
\* exception it raises instead of calling it
PredictUpdate(feat) ==
    IF dynamic_subbatch_size
    THEN UpdateSubbatchSize(subbatch_size, SeqLen(feat), ExtraMsaNum(feat))
    ELSE [raised |-> "none", subbatch_size |-> subbatch_size]

PredictRecord(feat, invoked) ==
    [feat        |-> feat,
     size_before |-> subbatch_size,
     size_after  |-> PredictUpdate(feat).subbatch_size,
     raised      |-> PredictUpdate(feat).raised,
     invoked     |-> invoked,
     in_effect   |-> 0]

\* Lines 169-172: predict up to the call of the network.
PredictEnter ==
    /\ rm_pc = "ready"
    /\ Len(predict_calls) < MaxPredicts
    /\ \E feat \in Feats :
          /\ PredictUpdate(feat).raised = "none"
          /\ subbatch_size' = PredictUpdate(feat).subbatch_size
          /\ predict_calls' = Append(predict_calls, PredictRecord(feat, FALSE))
    /\ rm_pc' = "predict"
    /\ rm_error' = "none"
    /\ UNCHANGED <<networkVars, params_path, dynamic_subbatch_size, state_dict,
                   files, preprocess_calls>>

\* Lines 169-172 and 233: update_subbatch_size raises, and so does predict.
PredictRaises ==
    /\ rm_pc = "ready"
    /\ Len(predict_calls) < MaxPredicts
    /\ \E feat \in Feats :
          /\ PredictUpdate(feat).raised # "none"
          /\ subbatch_size' = PredictUpdate(feat).subbatch_size
          /\ rm_error' = PredictUpdate(feat).raised
          /\ predict_calls' = Append(predict_calls, PredictRecord(feat, FALSE))
    /\ UNCHANGED <<networkVars, rm_pc, params_path, dynamic_subbatch_size,
                   state_dict, files, preprocess_calls>>

\* Lines 174-181: the network runs, with the sub-batch size that is in
\* place, and predict returns.
PredictModel ==
    /\ rm_pc = "predict"
    /\ predict_calls' = [predict_calls EXCEPT
                            ![Len(predict_calls)].invoked = TRUE,
                            ![Len(predict_calls)].in_effect = subbatch_size]
    /\ rm_pc' = "ready"
    /\ UNCHANGED <<networkVars, params_path, dynamic_subbatch_size,
                   subbatch_size, state_dict, files, rm_error,
                   preprocess_calls>>

NextRunModel ==
    \/ RunModelInit
    \/ InitParamsAssigns
    \/ InitParamsRaises
    \/ PredictEnter
    \/ PredictRaises
    \/ PredictModel

SpecRunModel == InitRunModel /\ [][NextRunModel]_vars

(***************************************************************************)
(* Properties of RunModel.                                                 *)
(***************************************************************************)

\* the sub-batch size the model was constructed with
ConfiguredSize ==
    IF predict_calls = <<>> THEN subbatch_size ELSE predict_calls[1].size_before

\* the size the policy names for a call: the full width below the
\* threshold of the width, the configured size at or above it
ClaimedSize(seq_len, extra_msa_num) ==
    IF extra_msa_num = 5120 /\ seq_len < 200 THEN 5120
    ELSE IF extra_msa_num = 1024 /\ seq_len < 600 THEN 1024
    ELSE ConfiguredSize

\* C12: on a freshly constructed RunModel with dynamic sub-batch sizing,
\* update_subbatch_size(seq_len, extra_msa_num) leaves the sub-batch size
\* 5120 when extra_msa_num = 5120 and seq_len < 200, 1024 when
\* extra_msa_num = 1024 and seq_len < 600, and the configured size when
\* extra_msa_num is 5120 or 1024 and seq_len is at or above 200 or 600.
C12_FreshUpdate ==
    (dynamic_subbatch_size /\ Len(predict_calls) = 1) =>
        LET c == predict_calls[1]
            n == SeqLen(c.feat)
            x == ExtraMsaNum(c.feat)
        IN  x \in {5120, 1024} =>
                /\ c.raised = "none"
                /\ subbatch_size = c.size_after
                /\ x = 5120 /\ n < 200 => subbatch_size = 5120
                /\ x = 1024 /\ n < 600 => subbatch_size = 1024
                /\ x = 5120 /\ n >= 200 => subbatch_size = ConfiguredSize
                /\ x = 1024 /\ n >= 600 => subbatch_size = ConfiguredSize
                /\ c.invoked => c.in_effect = subbatch_size

C12_Witness ==
    /\ dynamic_subbatch_size
    /\ Len(predict_calls) = 1
    /\ predict_calls[1].feat = MakeFeat(600, 1024)
    /\ predict_calls[1].invoked
    /\ subbatch_size = 4

\* C13 as stated: in every call of predict on a RunModel with dynamic
\* sub-batch sizing the network runs with the size its own seq_len and
\* extra-MSA width name: the configured size whenever seq_len is at or above
\* the threshold of the width, whichever calls came before.
C13_AsStated ==
    dynamic_subbatch_size =>
        \A k \in 1..Len(predict_calls) :
            predict_calls[k].invoked =>
                predict_calls[k].in_effect =
                    ClaimedSize(SeqLen(predict_calls[k].feat),
                                ExtraMsaNum(predict_calls[k].feat))

\* C14: with dynamic sub-batch sizing a call of predict whose extra-MSA
\* width is neither 5120 nor 1024 raises ValueError whatever seq_len is; the
\* network is not invoked and the sub-batch size stays what it was.
C14_UnknownWidth ==
    dynamic_subbatch_size =>
        \A k \in 1..Len(predict_calls) :
            ExtraMsaNum(predict_calls[k].feat) \notin {5120, 1024} =>
                /\ predict_calls[k].raised = "ValueError"
                /\ ~predict_calls[k].invoked
                /\ predict_calls[k].size_after = predict_calls[k].size_before
                /\ k = Len(predict_calls) =>
                      /\ subbatch_size = predict_calls[k].size_before
                      /\ rm_pc = "ready"
                      /\ rm_error = "ValueError"

C14_Witness ==
    /\ dynamic_subbatch_size
    /\ Len(predict_calls) = 2
    /\ predict_calls[1].feat = MakeFeat(199, 5120)
    /\ predict_calls[2].feat = MakeFeat(199, 512)
    /\ predict_calls[2].raised = "ValueError"
    /\ subbatch_size = 5120

\* C15: init_params assigns the parameters of a path that ends in '.npz',
\* remapped, or in '.pd', as loaded; for any other path it raises ValueError
\* before any parameter is assigned, and the construction of RunModel does
\* not complete.
C15_InitParams ==
    rm_pc \notin {"new", "init_params"} =>
        /\ EndsWith(params_path, <<".", "n", "p", "z">>) =>
              /\ rm_pc # "failed"
              /\ state_dict = [loaded_by |-> "np.load", remapped |-> TRUE,
                               path |-> params_path]
        /\ EndsWith(params_path, <<".", "p", "d">>) =>
              /\ rm_pc # "failed"
              /\ state_dict = [loaded_by |-> "paddle.load", remapped |-> FALSE,
                               path |-> params_path]
        /\ (~EndsWith(params_path, <<".", "n", "p", "z">>)
                /\ ~EndsWith(params_path, <<".", "p", "d">>)) =>
              /\ rm_pc = "failed"
              /\ rm_error = "ValueError"
              /\ state_dict = "none"
              /\ predict_calls = <<>>

C15_Witness ==
    /\ rm_pc = "failed"
    /\ params_path = <<"m", ".", "n", "p", "z", ".", "b", "a", "k">>
    /\ state_dict = "none"

(***************************************************************************)
(* RunModel.preprocess and the files of its cache paths.  A file is a      *)
(* record [exists, pickled]: whether a file is at the path, and the        *)
(* objects pickled in it, none in an empty file.                           *)
(***************************************************************************)
MaxPreprocess == 3

CachePaths == {"a.pkl", "b.pkl"}

\* the raw features of two targets
RawFeatures ==
    { [seq_length |-> 2, deletion_matrix_int |-> 1],
      [seq_length |-> 3, deletion_matrix |-> 1] }

Seeds == {0, 1}

\* lines 134-136: deletion_matrix_int becomes deletion_matrix
RenameDeletionMatrix(raw) ==
    IF "deletion_matrix_int" \in DOMAIN raw
    THEN [k \in ((DOMAIN raw) \ {"deletion_matrix_int"}) \cup {"deletion_matrix"} |->
             IF k = "deletion_matrix" THEN raw["deletion_matrix_int"] ELSE raw[k]]
    ELSE raw

\* lines 126-155: the features computed from the raw features
ComputeFeatures(raw) ==
    [op        |-> "process_arrays_from_config",
     crop_size |-> raw["seq_length"],
     arrays    |-> RenameDeletionMatrix(raw)]

AbsentFile == [exists |-> FALSE, pickled |-> <<>>]

EmptyFile == [exists |-> TRUE, pickled |-> <<>>]

\* pickle.dump(features, f, protocol=4) on a file opened with 'wb': the
\* file written
Pickled(features) == [exists |-> TRUE, pickled |-> <<features>>]

\* pkl.exists()
Exists(file) == file.exists

\* whether pickle.load reads an object from the file
Unpickles(file) == file.exists /\ file.pickled # <<>>

\* pickle.load(f)
PickleLoad(file) == Head(file.pickled)

\* utils.map_to_tensor(features, add_batch=True)
MapToTensor(features) == [tensors_of |-> features, add_batch |-> TRUE]

\* CacheHit with the cache path alone deciding
CacheHitWithoutFile(pkl, fs) == pkl # "None"

\* line 117: pkl is not None and pkl.exists()
CacheHit(pkl, fs) == pkl # "None" /\ Exists(fs[pkl])

\* the history of one call; result holds what the call returned, if it did
PreprocessRecord(raw, seed, pkl, computed, wrote, raised, result) ==
    [raw_features |-> raw, random_seed |-> seed, pkl |-> pkl,
     before   |-> IF pkl = "None" THEN AbsentFile ELSE files[pkl],
     computed |-> computed, wrote |-> wrote, raised |-> raised,
     result   |-> result]

\* a constructed RunModel, and cache files left by earlier runs
InitPreprocess ==
    /\ config = MakeConfig(0, FALSE, TRUE, TRUE, <<Item("structure_module", 1)>>)
    /\ used_heads = UsedHeads(config.heads)
    /\ batch = MakeBatch(1, 1, 2, 1, TRUE, -1)
    /\ args = [ensemble_representations |-> TRUE,
               return_representations |-> TRUE]
    /\ Idle
    /\ NoModuleCall
    /\ rm_pc = "ready"
    /\ params_path = <<"m", ".", "p", "d">>
    /\ dynamic_subbatch_size = TRUE
    /\ subbatch_size \in ConfiguredSizes
    /\ state_dict = InitParams(params_path).pd_params
    /\ files \in [CachePaths ->
                     {AbsentFile, EmptyFile,
                      Pickled(ComputeFeatures([seq_length |-> 1,
                                               deletion_matrix |-> 1]))}]
    /\ rm_error = "none"
    /\ predict_calls = <<>>
    /\ preprocess_calls = <<>>

\* Lines 117-123: the file of the cache path exists and is unpickled.
PreprocessCached ==
    /\ rm_pc = "ready"
    /\ Len(preprocess_calls) < MaxPreprocess
    /\ \E raw \in RawFeatures, seed \in Seeds, pkl \in CachePaths \cup {"None"} :
          /\ CacheHit(pkl, files)
          /\ Unpickles(files[pkl])
          /\ preprocess_calls' =
                 Append(preprocess_calls,
                     PreprocessRecord(raw, seed, pkl, FALSE, FALSE, "none",
                                      <<MapToTensor(PickleLoad(files[pkl]))>>))
    /\ rm_error' = "none"
    /\ UNCHANGED <<networkVars, rm_pc, params_path, dynamic_subbatch_size,
                   subbatch_size, state_dict, files, predict_calls>>

\* Lines 117-120: the file of the cache path exists and pickle.load raises.
PreprocessLoadRaises ==
    /\ rm_pc = "ready"
    /\ Len(preprocess_calls) < MaxPreprocess
    /\ \E raw \in RawFeatures, seed \in Seeds, pkl \in CachePaths \cup {"None"} :
          /\ CacheHit(pkl, files)
          /\ ~Unpickles(files[pkl])
          /\ preprocess_calls' =
                 Append(preprocess_calls,
                     PreprocessRecord(raw, seed, pkl, FALSE, FALSE, "EOFError",
                                      <<>>))
    /\ rm_error' = "EOFError"
    /\ UNCHANGED <<networkVars, rm_pc, params_path, dynamic_subbatch_size,
                   subbatch_size, state_dict, files, predict_calls>>

\* Lines 125-162: the features are computed, and written when there is a
\* cache path.
PreprocessComputes ==
    /\ rm_pc = "ready"
    /\ Len(preprocess_calls) < MaxPreprocess
    /\ \E raw \in RawFeatures, seed \in Seeds, pkl \in CachePaths \cup {"None"} :
          /\ ~CacheHit(pkl, files)
          /\ LET features == ComputeFeatures(raw)
             IN  /\ files' = IF pkl # "None"
                             THEN [files EXCEPT ![pkl] = Pickled(features)]
                             ELSE files
                 /\ preprocess_calls' =
                        Append(preprocess_calls,
                            PreprocessRecord(raw, seed, pkl, TRUE, pkl # "None",
                                             "none", <<MapToTensor(features)>>))
    /\ rm_error' = "none"
    /\ UNCHANGED <<networkVars, rm_pc, params_path, dynamic_subbatch_size,
                   subbatch_size, state_dict, predict_calls>>

NextPreprocess ==
    \/ PreprocessCached
    \/ PreprocessLoadRaises
    \/ PreprocessComputes

SpecPreprocess == InitPreprocess /\ [][NextPreprocess]_vars

\* C16 as stated: a call whose cache path is present and populated loads
\* the pickled mapping and computes nothing; any other call (path absent,
\* or present but not populated) computes the features and writes them to
\* the path.
C16_AsStated ==
    \A k \in 1..Len(preprocess_calls) :
        LET c == preprocess_calls[k]
        IN  IF c.pkl # "None" /\ Unpickles(c.before)
            THEN ~c.computed /\ c.raised = "none"
            ELSE c.computed /\ c.wrote

\* C16, amended: a call with a cache path at which a file exists computes
\* nothing and returns the mapping unpickled from the file, and fails when
\* the file holds none; a call with a cache path at which no file exists
\* computes the features and writes them to the path; a call without a cache
\* path computes the features and writes nothing.  After a call with a path
\* has succeeded, every later call with that path computes nothing and
\* returns the same mapping, whatever its raw features and seed.
C16_Cache ==
    /\ \A k \in 1..Len(preprocess_calls) :
          LET c == preprocess_calls[k]
          IN  /\ (c.pkl # "None" /\ Exists(c.before)) =>
                    /\ ~c.computed /\ ~c.wrote
                    /\ Unpickles(c.before) =>
                          c.raised = "none" /\ c.result = <<MapToTensor(PickleLoad(c.before))>>
                    /\ ~Unpickles(c.before) =>
                          c.raised # "none" /\ c.result = <<>>
              /\ (c.pkl # "None" /\ ~Exists(c.before)) =>
                    /\ c.computed /\ c.wrote /\ c.raised = "none"
                    /\ c.result = <<MapToTensor(ComputeFeatures(c.raw_features))>>
                    /\ files[c.pkl] = Pickled(ComputeFeatures(c.raw_features))
              /\ c.pkl = "None" =>
                    /\ c.computed /\ ~c.wrote /\ c.raised = "none"
                    /\ c.result = <<MapToTensor(ComputeFeatures(c.raw_features))>>
    /\ \A j, k \in 1..Len(preprocess_calls) :
          (j < k /\ preprocess_calls[j].pkl # "None"
                 /\ preprocess_calls[j].pkl = preprocess_calls[k].pkl
                 /\ preprocess_calls[j].raised = "none") =>
              /\ ~preprocess_calls[k].computed
              /\ preprocess_calls[k].raised = "none"
              /\ preprocess_calls[k].result = preprocess_calls[j].result

C16_Witness ==
    /\ Len(preprocess_calls) = 2
    /\ preprocess_calls[1].pkl = "a.pkl"
    /\ preprocess_calls[1].before = AbsentFile
    /\ preprocess_calls[1].computed
    /\ preprocess_calls[2].pkl = "a.pkl"
    /\ preprocess_calls[2].raw_features # preprocess_calls[1].raw_features
    /\ preprocess_calls[2].random_seed # preprocess_calls[1].random_seed
    /\ ~preprocess_calls[2].computed
    /\ preprocess_calls[2].result = preprocess_calls[1].result

(***************************************************************************)
(* Tensors with contents.  A tensor is a record [shape, at]: `at` maps     *)
(* every index, a sequence of positions counted from 0, to the element     *)
(* there.  The element of an input is its name and index; the element of a *)
(* layer's output is a record of the layer and of every element its        *)
(* formula reads, in the order of the formula's sums, so two outputs are   *)
(* equal only when they are computed from the same elements.               *)
(***************************************************************************)
MaxChunk == 4
MaxTemplates == 2

RECURSIVE Indices(_)
Indices(shape) ==
    IF shape = <<>> THEN {<<>>}
    ELSE {Append(p, i) : p \in Indices(SubSeq(shape, 1, Len(shape) - 1)),
                         i \in 0..(shape[Len(shape)] - 1)}

\* an input tensor: every element is known by the name and its index
Labelled(name, shape) ==
    [shape |-> shape, at |-> [idx \in Indices(shape) |-> <<name, idx>>]]

\* what an operation on tensors of shapes that do not fit yields
ShapeError == [shape |-> <<-1>>, at |-> <<>>]

Front(s) == SubSeq(s, 1, Len(s) - 1)

\* the vector along the last axis at the index prefix
Row(t, prefix) ==
    [a \in 1..t.shape[Len(t.shape)] |-> t.at[Append(prefix, a - 1)]]

\* t.slice([axis], [start], [end]), the end clipped to the axis
Slice(t, axis, start, end) ==
    LET d  == t.shape[axis + 1]
        lo == Min(start, d)
        hi == Min(end, d)
        shape == [t.shape EXCEPT ![axis + 1] = hi - lo]
    IN  [shape |-> shape,
         at |-> [idx \in Indices(shape) |->
                    t.at[[idx EXCEPT ![axis + 1] = @ + lo]]]]

RECURSIVE SumTo(_, _)
\* the extent along `axis` of the first n tensors of ts
SumTo(widths, n) == IF n = 0 THEN 0 ELSE SumTo(widths, n - 1) + widths[n]

\* paddle.concat(ts, axis)
Concat(ts, axis) ==
    LET rank   == Len(ts[1].shape)
        widths == [j \in 1..Len(ts) |-> ts[j].shape[axis + 1]]
        fits   == \A j \in 1..Len(ts) :
                      /\ Len(ts[j].shape) = rank
                      /\ \A i \in 1..rank :
                            i # axis + 1 => ts[j].shape[i] = ts[1].shape[i]
        shape  == [ts[1].shape EXCEPT ![axis + 1] = SumTo(widths, Len(ts))]
        Part(x) == CHOOSE j \in 1..Len(ts) :
                       SumTo(widths, j - 1) <= x /\ x < SumTo(widths, j)
        sound  == \A j \in 1..Len(ts) : ts[j].shape # ShapeError.shape
    IN  IF ~sound \/ axis + 1 > rank \/ ~fits THEN ShapeError
        ELSE [shape |-> shape,
              at |-> [idx \in Indices(shape) |->
                         LET j == Part(idx[axis + 1])
                         IN  ts[j].at[[idx EXCEPT ![axis + 1] =
                                          @ - SumTo(widths, j - 1)]]]]

\* the element of t that broadcasting pairs with index idx
Broadcast(t, idx) ==
    t.at[[i \in 1..Len(idx) |-> IF t.shape[i] = 1 THEN 0 ELSE idx[i]]]

Broadcastable(from, to) ==
    /\ Len(from) = Len(to)
    /\ \A i \in 1..Len(to) : from[i] \in {1, to[i]}

(***************************************************************************)
(* The operations that are evaluated in sub-batches.  num_head is 1.       *)
(***************************************************************************)

\* Attention.forward(q_data, m_data, bias, nonbatched_bias); nb is <<>> for
\* None and <<nonbatched_bias>> otherwise.  logits[n,b,h,q,k] is made of the
\* query row, the memory row k, bias and nonbatched_bias; the output at
\* [n,b,q,o] is the softmax-weighted sum over k, gated by the query row.
AttentionForward(q_data, m_data, bias, nb) ==
    LET N == q_data.shape[1]
        B == q_data.shape[2]
        Q == q_data.shape[3]
        K == m_data.shape[3]
        shape == <<N, B, Q, q_data.shape[4]>>
        fits == /\ m_data.shape[1] = N /\ m_data.shape[2] = B
                /\ Broadcastable(bias.shape, <<N, B, 1, Q, K>>)
                /\ nb # <<>> => nb[1].shape = <<N, 1, Q, K>>
    IN  IF ~fits THEN ShapeError
        ELSE [shape |-> shape,
              at |-> [idx \in Indices(shape) |->
                 [op |-> "Attention", o |-> idx[4],
                  q  |-> Row(q_data, <<idx[1], idx[2], idx[3]>>),
                  kv |-> [k \in 1..K |->
                      [m    |-> Row(m_data, <<idx[1], idx[2], k - 1>>),
                       bias |-> Broadcast(bias,
                                   <<idx[1], idx[2], 0, idx[3], k - 1>>),
                       nonbatched_bias |->
                           IF nb = <<>> THEN <<>>
                           ELSE <<nb[1].at[<<idx[1], 0, idx[3], k - 1>>]>>]]]]]

\* GlobalAttention.forward(q_data, m_data, q_mask, bias) with gating: the
\* query is the masked mean of q_data over axis 2, the bias is made of
\* q_mask, and the argument bias is not read.
GlobalAttentionForward(q_data, m_data, q_mask, bias) ==
    LET N == q_data.shape[1]
        B == q_data.shape[2]
        Q == q_data.shape[3]
        K == m_data.shape[3]
        shape == <<N, B, Q, q_data.shape[4]>>
        fits == /\ m_data.shape[1] = N /\ m_data.shape[2] = B
                /\ q_mask.shape = <<N, B, Q, 1>>
                /\ K = Q
    IN  IF ~fits THEN ShapeError
        ELSE [shape |-> shape,
              at |-> [idx \in Indices(shape) |->
                 [op |-> "GlobalAttention", o |-> idx[4],
                  q  |-> Row(q_data, <<idx[1], idx[2], idx[3]>>),
                  q_avg |-> [j \in 1..Q |->
                      [x    |-> Row(q_data, <<idx[1], idx[2], j - 1>>),
                       mask |-> Row(q_mask, <<idx[1], idx[2], j - 1>>)]],
                  kv |-> [k \in 1..K |->
                      [m    |-> Row(m_data, <<idx[1], idx[2], k - 1>>),
                       bias |-> Row(q_mask, <<idx[1], idx[2], k - 1>>)]]]]]

\* transition_module(x) of Transition.forward: two Linear layers over the
\* last axis
TransitionModule(x) ==
    [shape |-> x.shape,
     at |-> [idx \in Indices(x.shape) |->
                [op |-> "transition_module", o |-> idx[Len(idx)],
                 x  |-> Row(x, Front(idx))]]]

\* compute_chunk(left_act) of OuterProductMean.forward, right_act being the
\* variable of the enclosing forward: the output at [n,b,d,f] sums, over
\* the sequences a, the outer product of left_act[n,a,b,:] and
\* right_act[n,a,d,:]
ComputeChunk(left_act, right_act) ==
    LET shape == <<left_act.shape[1], left_act.shape[3], right_act.shape[3],
                   left_act.shape[4]>>
        fits == /\ left_act.shape[1] = right_act.shape[1]
                /\ left_act.shape[2] = right_act.shape[2]
    IN  IF ~fits THEN ShapeError
        ELSE [shape |-> shape,
              at |-> [idx \in Indices(shape) |->
                 [op |-> "compute_chunk", o |-> idx[4],
                  sum |-> [a \in 1..left_act.shape[2] |->
                      [left  |-> Row(left_act, <<idx[1], a - 1, idx[2]>>),
                       right |-> Row(right_act, <<idx[1], a - 1, idx[3]>>)]]]]]

\* paddle.einsum(equation, left, right) for the two equations of
\* TriangleMultiplication.forward
Einsum(equation, left, right) ==
    IF equation = "bikc,bjkc->bijc"
    THEN LET shape == <<left.shape[1], left.shape[2], right.shape[2],
                        left.shape[4]>>
             fits == /\ left.shape[1] = right.shape[1]
                     /\ left.shape[3] = right.shape[3]
                     /\ left.shape[4] = right.shape[4]
         IN  IF ~fits THEN ShapeError
             ELSE [shape |-> shape,
                   at |-> [idx \in Indices(shape) |->
                      [op |-> "einsum",
                       sum |-> [k \in 1..left.shape[3] |->
                           [left  |-> left.at[<<idx[1], idx[2], k - 1, idx[4]>>],
                            right |-> right.at[<<idx[1], idx[3], k - 1, idx[4]>>]]]]]]
    ELSE LET shape == <<left.shape[1], right.shape[3], left.shape[3],
                        left.shape[4]>>
             fits == /\ left.shape[1] = right.shape[1]
                     /\ left.shape[2] = right.shape[2]
                     /\ left.shape[4] = right.shape[4]
         IN  IF ~fits THEN ShapeError
             ELSE [shape |-> shape,
                   at |-> [idx \in Indices(shape) |->
                      [op |-> "einsum",
                       sum |-> [k \in 1..left.shape[2] |->
                           [left  |-> left.at[<<idx[1], k - 1, idx[3], idx[4]>>],
                            right |-> right.at[<<idx[1], k - 1, idx[2], idx[4]>>]]]]]]

\* f(*args) for the function f a call site hands to subbatch; `closure`
\* holds the variables of the enclosing forward that f reads
Apply(f, call_args, closure) ==
    CASE f = "Attention" ->
             AttentionForward(call_args[1], call_args[2], call_args[3],
                              SubSeq(call_args, 4, Len(call_args)))
      [] f = "GlobalAttention" ->
             GlobalAttentionForward(call_args[1], call_args[2], call_args[3],
                                    call_args[4])
      [] f = "transition_module" -> TransitionModule(call_args[1])
      [] f = "compute_chunk" -> ComputeChunk(call_args[1], closure[1])
      [] f = "einsum" -> Einsum(call_args[1], call_args[2], call_args[3])

(***************************************************************************)
(* The call sites of subbatch(f, arg_idx, dim, bs, out_idx), and the       *)
(* wrapper it returns.  The batch holds one example, the channels are one. *)
(***************************************************************************)
SubbatchSites ==
    {"msa_row_attention_with_pair_bias", "msa_column_global_attention",
     "msa_column_attention", "msa_transition", "pair_transition",
     "outer_product_mean", "triangle_attention",
     "triangle_multiplication_outgoing", "triangle_multiplication_incoming",
     "template_attention"}

\* TriangleMultiplicationDims with the axes of the outgoing equation used
\* for both equations
TriangleMultiplicationDimsOfOutgoing(equation) ==
    [dim |-> 1, out_idx |-> 1, equation |-> IF equation = "ikc,jkc->ijc"
                                            THEN "bikc,bjkc->bijc"
                                            ELSE "bkjc,bkic->bijc"]

\* dim, out_idx and the batched equation TriangleMultiplication.forward
\* chooses for config.equation
TriangleMultiplicationDims(equation) ==
    IF equation = "ikc,jkc->ijc"
    THEN [dim |-> 1, out_idx |-> 1, equation |-> "bikc,bjkc->bijc"]
    ELSE [dim |-> 2, out_idx |-> 2, equation |-> "bkjc,bkic->bijc"]

\* One call site on S sequences, N residues and T templates: the function
\* handed to subbatch, the indices and axes of the sliced arguments, the
\* output axis, the arguments of the call, and the variables of the
\* enclosing forward the function reads.
SiteCall(site, S, N, T) ==
    CASE site = "msa_row_attention_with_pair_bias" ->
             [f |-> "Attention", arg_idx |-> <<0, 1, 2>>, dim |-> <<1, 1, 1>>,
              out_idx |-> 1, bs_from |-> "global_config.subbatch_size",
              args |-> <<Labelled("msa_act", <<1, S, N, 1>>),
                         Labelled("msa_act", <<1, S, N, 1>>),
                         Labelled("bias", <<1, S, 1, 1, N>>),
                         Labelled("nonbatched_bias", <<1, 1, N, N>>)>>,
              closure |-> <<>>]
      [] site = "msa_column_global_attention" ->
             [f |-> "GlobalAttention", arg_idx |-> <<0, 1, 2>>,
              dim |-> <<1, 1, 1>>, out_idx |-> 1,
              bs_from |-> "global_config.subbatch_size",
              args |-> <<Labelled("msa_act", <<1, N, S, 1>>),
                         Labelled("msa_act", <<1, N, S, 1>>),
                         Labelled("msa_mask", <<1, N, S, 1>>),
                         Labelled("bias", <<1, N, 1, 1, S>>)>>,
              closure |-> <<>>]
      [] site = "msa_column_attention" ->
             [f |-> "Attention", arg_idx |-> <<0, 1, 2>>, dim |-> <<1, 1, 1>>,
              out_idx |-> 1, bs_from |-> "global_config.subbatch_size",
              args |-> <<Labelled("msa_act", <<1, N, S, 1>>),
                         Labelled("msa_act", <<1, N, S, 1>>),
                         Labelled("bias", <<1, N, 1, 1, S>>)>>,
              closure |-> <<>>]
      [] site = "msa_transition" ->
             [f |-> "transition_module", arg_idx |-> <<0>>, dim |-> <<1>>,
              out_idx |-> 1, bs_from |-> "global_config.subbatch_size",
              args |-> <<Labelled("act", <<1, S, N, 1>>)>>,
              closure |-> <<>>]
      [] site = "pair_transition" ->
             [f |-> "transition_module", arg_idx |-> <<0>>, dim |-> <<1>>,
              out_idx |-> 1, bs_from |-> "global_config.subbatch_size",
              args |-> <<Labelled("act", <<1, N, N, 1>>)>>,
              closure |-> <<>>]
      [] site = "outer_product_mean" ->
             [f |-> "compute_chunk", arg_idx |-> <<0>>, dim |-> <<2>>,
              out_idx |-> 1, bs_from |-> "config.chunk_size",
              args |-> <<Labelled("left_act", <<1, S, N, 1>>)>>,
              closure |-> <<Labelled("right_act", <<1, S, N, 1>>)>>]
      [] site = "triangle_attention" ->
             [f |-> "Attention", arg_idx |-> <<0, 1, 2>>, dim |-> <<1, 1, 1>>,
              out_idx |-> 1, bs_from |-> "global_config.subbatch_size",
              args |-> <<Labelled("pair_act", <<1, N, N, 1>>),
                         Labelled("pair_act", <<1, N, N, 1>>),
                         Labelled("bias", <<1, N, 1, 1, N>>),
                         Labelled("nonbatched_bias", <<1, 1, N, N>>)>>,
              closure |-> <<>>]
      [] site = "triangle_multiplication_outgoing" ->
             LET d == TriangleMultiplicationDims("ikc,jkc->ijc")
             IN  [f |-> "einsum", arg_idx |-> <<1>>, dim |-> <<d.dim>>,
                  out_idx |-> d.out_idx,
                  bs_from |-> "global_config.subbatch_size",
                  args |-> <<d.equation,
                             Labelled("left_proj_act", <<1, N, N, 1>>),
                             Labelled("right_proj_act", <<1, N, N, 1>>)>>,
                  closure |-> <<>>]
      [] site = "triangle_multiplication_incoming" ->
             LET d == TriangleMultiplicationDims("kjc,kic->ijc")
             IN  [f |-> "einsum", arg_idx |-> <<1>>, dim |-> <<d.dim>>,
                  out_idx |-> d.out_idx,
                  bs_from |-> "global_config.subbatch_size",
                  args |-> <<d.equation,
                             Labelled("left_proj_act", <<1, N, N, 1>>),
                             Labelled("right_proj_act", <<1, N, N, 1>>)>>,
                  closure |-> <<>>]
      [] site = "template_attention" ->
             [f |-> "Attention", arg_idx |-> <<0, 1>>, dim |-> <<1, 1>>,
              out_idx |-> 1, bs_from |-> "config.subbatch_size",
              args |-> <<Labelled("flat_query", <<1, N * N, 1, 1>>),
                         Labelled("flat_templates", <<1, N * N, T, 1>>),
                         Labelled("bias", <<1, 1, 1, 1, T>>)>>,
              closure |-> <<>>]

\* the extent of the axis that is cut into chunks
DimWidth(call) == call.args[call.arg_idx[1] + 1].shape[call.dim[1] + 1]

\* the arguments of the call for the chunk that starts at slice_at
ChunkArgs(call, slice_at, bs) ==
    [i \in 1..Len(call.args) |->
        IF \E j \in 1..Len(call.arg_idx) : call.arg_idx[j] = i - 1
        THEN LET j == CHOOSE j \in 1..Len(call.arg_idx) : call.arg_idx[j] = i - 1
             IN  Slice(call.args[i], call.dim[j], slice_at, slice_at + bs)
        ELSE call.args[i]]

\* one layer is called on its own, in inference or in training mode
InitSubbatch ==
    /\ \E R \in 0..0 :
          config = MakeConfig(R, FALSE, TRUE, TRUE, <<Item("structure_module", 1)>>)
    /\ used_heads = UsedHeads(config.heads)
    /\ batch = MakeBatch(1, 1, 2, 1, TRUE, -1)
    /\ args = [ensemble_representations |-> TRUE,
               return_representations |-> TRUE]
    /\ Idle
    /\ NoRunModel
    /\ \E site \in SubbatchSites, S \in 1..MaxSeq, N \in 1..MaxRes,
          T \in 1..MaxTemplates, bs \in 1..MaxChunk, training \in BOOLEAN :
          /\ fn = [name |-> site, training |-> training, bs |-> bs,
                   call |-> [k \in (DOMAIN SiteCall(site, S, N, T)) \ {"args", "closure"} |->
                                SiteCall(site, S, N, T)[k]]]
          /\ fn_args = SiteCall(site, S, N, T).args
          /\ locals = [slice_at |-> 0, outs |-> <<>>,
                       closure |-> SiteCall(site, S, N, T).closure]
    /\ fn_pc = "call"
    /\ fn_ret = <<>>

\* the call the site makes: fn.call with the arguments
TheCall == [k \in (DOMAIN fn.call) \cup {"args"} |->
               IF k = "args" THEN fn_args ELSE fn.call[k]]

\* `if not self.training:` the wrapper is built and called
SubbatchEnter ==
    /\ fn_pc = "call"
    /\ ~fn.training
    /\ fn_pc' = "wrapper"
    /\ UNCHANGED <<config, used_heads, batch, args, driverVars, ipc, iterVars,
                   error, histVars, runModelVars, fn, fn_args, locals, fn_ret>>

\* `else:` the function is called on the arguments as they are
TrainingCall ==
    /\ fn_pc = "call"
    /\ fn.training
    /\ fn_ret' = <<Apply(fn.call.f, fn_args, locals.closure)>>
    /\ fn_pc' = "returned"
    /\ UNCHANGED <<config, used_heads, batch, args, driverVars, ipc, iterVars,
                   error, histVars, runModelVars, fn, fn_args, locals>>

\* one chunk: the sliced arguments are cut at slice_at and f is called
SubbatchChunk ==
    /\ fn_pc = "wrapper"
    /\ locals.slice_at < DimWidth(TheCall)
    /\ locals' = [locals EXCEPT
                     !.outs = Append(@, Apply(fn.call.f,
                                  ChunkArgs(TheCall, locals.slice_at, fn.bs),
                                  locals.closure)),
                     !.slice_at = @ + fn.bs]
    /\ UNCHANGED <<config, used_heads, batch, args, driverVars, ipc, iterVars,
                   error, histVars, runModelVars, fn, fn_args, fn_pc, fn_ret>>

\* the chunks are joined along out_idx and returned
SubbatchConcat ==
    /\ fn_pc = "wrapper"
    /\ locals.slice_at >= DimWidth(TheCall)
    /\ fn_ret' = <<Concat(locals.outs, fn.call.out_idx)>>
    /\ fn_pc' = "returned"
    /\ UNCHANGED <<config, used_heads, batch, args, driverVars, ipc, iterVars,
                   error, histVars, runModelVars, fn, fn_args, locals>>

NextSubbatch ==
    \/ SubbatchEnter
    \/ TrainingCall
    \/ SubbatchChunk
    \/ SubbatchConcat

SpecSubbatch == InitSubbatch /\ [][NextSubbatch]_vars

\* f(*args), the evaluation that is not cut into chunks
Unchunked == Apply(fn.call.f, fn_args, locals.closure)

\* C17: in inference mode, for every chunk size (dividing the axis or not,
\* or larger than it), at every call site the sub-batched evaluation equals
\* the evaluation that is not cut: chunk j is the slice [(j-1)*bs, j*bs) of
\* the whole output along the output axis, so it depends only on the input
\* slice it was given, and the result is the chunks in this order.
C17_ChunkedEqualsUnchunked ==
    fn_pc \in {"wrapper", "returned"} /\ ~fn.training =>
        /\ Unchunked # ShapeError
        /\ \A j \in 1..Len(locals.outs) :
              locals.outs[j] =
                  Slice(Unchunked, fn.call.out_idx, (j - 1) * fn.bs, j * fn.bs)
        /\ locals.slice_at = Len(locals.outs) * fn.bs
        /\ fn_pc = "returned" =>
              /\ fn_ret = <<Unchunked>>
              /\ Len(locals.outs) * fn.bs >= DimWidth(TheCall)
              /\ (Len(locals.outs) - 1) * fn.bs < DimWidth(TheCall)

C17_Witness ==
    /\ fn_pc = "returned"
    /\ ~fn.training
    /\ fn.name = "triangle_multiplication_incoming"
    /\ fn.bs = 2
    /\ Len(locals.outs) = 2
    /\ fn_ret[1].shape = <<1, 3, 3, 1>>

(***************************************************************************)
(* DistogramHead.forward.  The pair representation holds integers; the     *)
(* sum of two elements is commutative, as the floating-point sum is.       *)
(***************************************************************************)
NumBins == 2

PairValues == {0, 1}

\* the weight and the bias of the Linear layer half_logits, one pair channel
HalfLogitsWeight == [bin \in 0..(NumBins - 1) |-> bin + 1]

HalfLogitsBias == [bin \in 0..(NumBins - 1) |-> 2 * bin]

\* self.half_logits(pair): nn.Linear over the last axis
HalfLogits(pair) ==
    LET shape == <<pair.shape[1], pair.shape[2], pair.shape[3], NumBins>>
    IN  [shape |-> shape,
         at |-> [idx \in Indices(shape) |->
                    HalfLogitsBias[idx[4]]
                    + pair.at[<<idx[1], idx[2], idx[3], 0>>]
                      * HalfLogitsWeight[idx[4]]]]

\* paddle.transpose(t, perm): axis i of the result is axis perm[i] of t
Transpose(t, perm) ==
    LET shape == [i \in 1..Len(perm) |-> t.shape[perm[i] + 1]]
    IN  [shape |-> shape,
         at |-> [idx \in Indices(shape) |->
                    t.at[[a \in 1..Len(perm) |->
                            idx[CHOOSE i \in 1..Len(perm) : perm[i] = a - 1]]]]]

\* x + y for two tensors of one shape
Add(x, y) ==
    IF x.shape # y.shape THEN ShapeError
    ELSE [shape |-> x.shape,
          at |-> [idx \in Indices(x.shape) |-> x.at[idx] + y.at[idx]]]

\* DistogramLogits without the transposition
DistogramLogitsNotTransposed(half_logits) ==
    Add(half_logits, half_logits)

\* logits = half_logits + paddle.transpose(half_logits, perm=[0, 2, 1, 3])
DistogramLogits(half_logits) ==
    Add(half_logits, Transpose(half_logits, <<0, 2, 1, 3>>))

\* the pair representations of N residues
Pairs(N) ==
    {[shape |-> <<1, N, N, 1>>, at |-> a] :
        a \in [Indices(<<1, N, N, 1>>) -> PairValues]}

InitDistogram ==
    /\ \E R \in 0..0 :
          config = MakeConfig(R, FALSE, TRUE, TRUE, <<Item("distogram", 1)>>)
    /\ used_heads = UsedHeads(config.heads)
    /\ batch = MakeBatch(1, 1, 2, 1, TRUE, -1)
    /\ args = [ensemble_representations |-> TRUE,
               return_representations |-> TRUE]
    /\ Idle
    /\ NoRunModel
    /\ fn = [name |-> "distogram"]
    /\ \E N \in 1..MaxRes : \E pair \in Pairs(N) :
          fn_args = <<[pair |-> pair]>>
    /\ fn_pc = "call"
    /\ locals = EmptyDict
    /\ fn_ret = <<>>

\* half_logits = self.half_logits(representations['pair'])
DistogramHalfLogits ==
    /\ fn_pc = "call"
    /\ fn.name = "distogram"
    /\ locals' = [half_logits |-> HalfLogits(fn_args[1].pair)]
    /\ fn_pc' = "half_logits"
    /\ UNCHANGED <<config, used_heads, batch, args, driverVars, ipc, iterVars,
                   error, histVars, runModelVars, fn, fn_args, fn_ret>>

\* logits, breaks, return dict(logits=logits, bin_edges=breaks)
DistogramReturn ==
    /\ fn_pc = "half_logits"
    /\ fn_ret' = <<[logits |-> DistogramLogits(locals.half_logits),
                    bin_edges |-> [shape |-> <<locals.half_logits.shape[1],
                                               NumBins - 1>>]]>>
    /\ fn_pc' = "returned"
    /\ UNCHANGED <<config, used_heads, batch, args, driverVars, ipc, iterVars,
                   error, histVars, runModelVars, fn, fn_args, locals>>

NextDistogram ==
    \/ DistogramHalfLogits
    \/ DistogramReturn

SpecDistogram == InitDistogram /\ [][NextDistogram]_vars

\* C18: the logits DistogramHead returns are exactly symmetric under the
\* exchange of the two residue axes: logits[b,i,j,bin] = logits[b,j,i,bin]
\* for every pair representation, symmetric or not.
C18_SymmetricLogits ==
    fn_pc = "returned" =>
        LET logits == fn_ret[1].logits
        IN  /\ logits.shape = <<1, fn_args[1].pair.shape[2],
                                fn_args[1].pair.shape[2], NumBins>>
            /\ \A idx \in Indices(logits.shape) :
                  logits.at[idx] = logits.at[<<idx[1], idx[3], idx[2], idx[4]>>]

C18_Witness ==
    /\ fn_pc = "returned"
    /\ fn_args[1].pair.shape = <<1, 3, 3, 1>>
    /\ fn_args[1].pair.at[<<0, 0, 1, 0>>] = 1
    /\ fn_args[1].pair.at[<<0, 1, 0, 0>>] = 0
    /\ locals.half_logits.at[<<0, 0, 1, 1>>] # locals.half_logits.at[<<0, 1, 0, 1>>]
    /\ fn_ret[1].logits.at[<<0, 0, 1, 1>>] = 6

(***************************************************************************)
(* The template step of EmbeddingsAndEvoformer.forward and the end of      *)
(* TemplateEmbedding.forward.  Elements are integers; the output of the    *)
(* attention over the templates is any tensor of finite elements.          *)
(***************************************************************************)
EmbValues == {-2, 0, 3}

MaskValues == {0, 1}

RECURSIVE SumOver(_, _)
\* the sum of the elements of t at the indices S
SumOver(t, S) ==
    IF S = {} THEN 0
    ELSE LET idx == CHOOSE i \in S : TRUE
         IN  t.at[idx] + SumOver(t, S \ {idx})

\* paddle.sum(t)
TensorSum(t) == SumOver(t, Indices(t.shape))

\* t * s for a scalar s
Scale(t, s) ==
    [shape |-> t.shape, at |-> [idx \in Indices(t.shape) |-> t.at[idx] * s]]

\* TemplateGate that lets every embedding through
TemplateGateOpen(template_mask) == 1

\* (paddle.sum(template_mask) > 0.).astype(emb.dtype)
TemplateGate(template_mask) ==
    IF TensorSum(template_mask) > 0 THEN 1 ELSE 0

\* the pair activations before the template step, [n_batch, N_res, N_res, 1]
PairActivations(B, N) ==
    [shape |-> <<B, N, N, 1>>,
     at |-> [idx \in Indices(<<B, N, N, 1>>) |->
                1 + idx[1] + 2 * idx[2] - 3 * idx[3]]]

\* an output of the attention over the templates, reshaped to
\* [n_batch, N_res, N_res, query_channels]
TemplateAttentionOut(B, N, v) ==
    [shape |-> <<B, N, N, 1>>,
     at |-> [idx \in Indices(<<B, N, N, 1>>) |->
                v * (1 + idx[1] + idx[2] + 2 * idx[3])]]

InitTemplate ==
    /\ \E R \in 0..0 :
          config = MakeConfig(R, FALSE, TRUE, TRUE, <<Item("structure_module", 1)>>)
    /\ used_heads = UsedHeads(config.heads)
    /\ batch = MakeBatch(1, 1, 2, 1, TRUE, -1)
    /\ args = [ensemble_representations |-> TRUE,
               return_representations |-> TRUE]
    /\ Idle
    /\ NoRunModel
    /\ \E enabled \in BOOLEAN : fn = [name |-> "template", enabled |-> enabled]
    /\ \E B \in 1..MaxBatch, N \in 1..MaxRes, T \in 1..MaxTemplates :
          \E mask \in [Indices(<<B, T>>) -> MaskValues] :
             fn_args = <<[template_mask |-> [shape |-> <<B, T>>, at |-> mask]]>>
             /\ locals = [pair_activations |-> PairActivations(B, N),
                          attended |-> <<>>, emb |-> <<>>]
    /\ fn_pc = "call"
    /\ fn_ret = <<>>

\* `if self.config.template.enabled:` is false
TemplateDisabled ==
    /\ fn_pc = "call"
    /\ fn.name = "template"
    /\ ~fn.enabled
    /\ fn_pc' = "returned"
    /\ fn_ret' = <<locals.pair_activations>>
    /\ UNCHANGED <<config, used_heads, batch, args, driverVars, ipc, iterVars,
                   error, histVars, runModelVars, fn, fn_args, locals>>

\* TemplateEmbedding.forward up to the reshape of the attention's output;
\* locals.attended keeps this value of emb
TemplateAttention ==
    /\ fn_pc = "call"
    /\ fn.name = "template"
    /\ fn.enabled
    /\ \E v \in EmbValues :
          LET emb == TemplateAttentionOut(locals.pair_activations.shape[1],
                                          locals.pair_activations.shape[2], v)
          IN  locals' = [locals EXCEPT !.attended = <<emb>>, !.emb = <<emb>>]
    /\ fn_pc' = "attention"
    /\ UNCHANGED <<config, used_heads, batch, args, driverVars, ipc, iterVars,
                   error, histVars, runModelVars, fn, fn_args, fn_ret>>

\* emb *= (paddle.sum(template_mask) > 0.).astype(emb.dtype); return emb
TemplateGated ==
    /\ fn_pc = "attention"
    /\ locals' = [locals EXCEPT !.emb =
          <<Scale(locals.emb[1], TemplateGate(fn_args[1].template_mask))>>]
    /\ fn_pc' = "embedded"
    /\ UNCHANGED <<config, used_heads, batch, args, driverVars, ipc, iterVars,
                   error, histVars, runModelVars, fn, fn_args, fn_ret>>

\* pair_activations += template_pair_repr
TemplateAdded ==
    /\ fn_pc = "embedded"
    /\ fn_ret' = <<Add(locals.pair_activations, locals.emb[1])>>
    /\ fn_pc' = "returned"
    /\ UNCHANGED <<config, used_heads, batch, args, driverVars, ipc, iterVars,
                   error, histVars, runModelVars, fn, fn_args, locals>>

NextTemplate ==
    \/ TemplateDisabled
    \/ TemplateAttention
    \/ TemplateGated
    \/ TemplateAdded

SpecTemplate == InitTemplate /\ [][NextTemplate]_vars

\* the template mask is zero for every template
NoTemplatePresent ==
    \A idx \in Indices(fn_args[1].template_mask.shape) :
        fn_args[1].template_mask.at[idx] = 0

\* C19: when the template mask is zero for every template, the template
\* embedding that is added is zero at every position and channel, whatever
\* the attention over the templates produced, and the pair activations
\* after the template step equal those before it.
C19_NoTemplateNoChange ==
    NoTemplatePresent =>
        /\ fn_pc \in {"embedded", "returned"} /\ fn.enabled =>
              \A idx \in Indices(locals.emb[1].shape) : locals.emb[1].at[idx] = 0
        /\ fn_pc = "returned" => fn_ret = <<locals.pair_activations>>

C19_Witness ==
    /\ NoTemplatePresent
    /\ fn_pc = "returned"
    /\ fn.enabled
    /\ fn_args[1].template_mask.shape = <<1, 2>>
    /\ locals.pair_activations.shape = <<1, 2, 2, 1>>
    /\ locals.attended[1].at[<<0, 1, 1, 0>>] = 12
    /\ locals.emb[1].at[<<0, 1, 1, 0>>] = 0
    /\ fn_ret[1].at[<<0, 0, 1, 0>>] = -2

(***************************************************************************)
(* EvoformerIteration.forward.  An activation is the input it started as   *)
(* and the residuals added to it, in order; a residual is the sublayer     *)
(* that produced it and the activations the sublayer was called on.        *)
(***************************************************************************)
\* ColumnAttention that is the dense variant on both tracks
ColumnAttentionDense(is_extra_msa) == "msa_column_attention"

\* the column attention the block holds and calls
ColumnAttention(is_extra_msa) ==
    IF is_extra_msa THEN "msa_column_global_attention"
    ELSE "msa_column_attention"

\* the calls of forward, in program order: the sublayer, the activations and
\* the mask it is called on, and the activation its residual is added to
EvoformerSublayers(is_extra_msa) ==
    << [layer |-> "msa_row_attention_with_pair_bias",
        msa |-> TRUE, pair |-> TRUE, mask |-> "msa", adds_to |-> "msa"],
       [layer |-> ColumnAttention(is_extra_msa),
        msa |-> TRUE, pair |-> FALSE, mask |-> "msa", adds_to |-> "msa"],
       [layer |-> "msa_transition",
        msa |-> TRUE, pair |-> FALSE, mask |-> "msa", adds_to |-> "msa"],
       [layer |-> "outer_product_mean",
        msa |-> TRUE, pair |-> FALSE, mask |-> "msa", adds_to |-> "pair"],
       [layer |-> "triangle_multiplication_outgoing",
        msa |-> FALSE, pair |-> TRUE, mask |-> "pair", adds_to |-> "pair"],
       [layer |-> "triangle_multiplication_incoming",
        msa |-> FALSE, pair |-> TRUE, mask |-> "pair", adds_to |-> "pair"],
       [layer |-> "triangle_attention_starting_node",
        msa |-> FALSE, pair |-> TRUE, mask |-> "pair", adds_to |-> "pair"],
       [layer |-> "triangle_attention_ending_node",
        msa |-> FALSE, pair |-> TRUE, mask |-> "pair", adds_to |-> "pair"],
       [layer |-> "pair_transition",
        msa |-> FALSE, pair |-> TRUE, mask |-> "pair", adds_to |-> "pair"] >>

\* activations['msa'] or activations['pair'] as the block receives it
InputActivation(name, shape) == [input |-> name, shape |-> shape, residuals |-> <<>>]

InitEvoformer ==
    /\ \E R \in 0..0 :
          config = MakeConfig(R, FALSE, TRUE, TRUE, <<Item("structure_module", 1)>>)
    /\ used_heads = UsedHeads(config.heads)
    /\ batch = MakeBatch(1, 1, 2, 1, TRUE, -1)
    /\ args = [ensemble_representations |-> TRUE,
               return_representations |-> TRUE]
    /\ Idle
    /\ NoRunModel
    /\ \E is_extra_msa \in BOOLEAN, training \in BOOLEAN :
          fn = [name |-> "evoformer_iteration", is_extra_msa |-> is_extra_msa,
                training |-> training]
    /\ \E B \in 1..MaxBatch, S \in 1..MaxSeq, N \in 1..MaxRes :
          fn_args = <<[msa  |-> InputActivation("msa", <<B, S, N>>),
                       pair |-> InputActivation("pair", <<B, N, N>>)],
                      [msa  |-> [mask |-> "msa", shape |-> <<B, S, N>>],
                       pair |-> [mask |-> "pair", shape |-> <<B, N, N>>]]>>
    /\ locals = [step |-> 1, msa_act |-> fn_args[1].msa,
                 pair_act |-> fn_args[1].pair, residual |-> <<>>]
    /\ fn_pc = "sublayer"
    /\ fn_ret = <<>>

\* residual = self.<sublayer>(...)
EvoformerSublayer ==
    /\ fn_pc = "sublayer"
    /\ fn.name = "evoformer_iteration"
    /\ LET call == EvoformerSublayers(fn.is_extra_msa)[locals.step]
       IN  locals' = [locals EXCEPT !.residual =
               <<[layer |-> call.layer,
                  msa |-> IF call.msa THEN <<locals.msa_act>> ELSE <<>>,
                  pair |-> IF call.pair THEN <<locals.pair_act>> ELSE <<>>,
                  mask |-> fn_args[2][call.mask],
                  dropout |-> FALSE]>>]
    /\ fn_pc' = "dropout"
    /\ UNCHANGED <<config, used_heads, batch, args, driverVars, ipc, iterVars,
                   error, histVars, runModelVars, fn, fn_args, fn_ret>>

\* residual = self.<sublayer>_dropout(residual): the identity in inference
EvoformerDropout ==
    /\ fn_pc = "dropout"
    /\ locals' = [locals EXCEPT !.residual[1].dropout = fn.training]
    /\ fn_pc' = "add"
    /\ UNCHANGED <<config, used_heads, batch, args, driverVars, ipc, iterVars,
                   error, histVars, runModelVars, fn, fn_args, fn_ret>>

\* EvoformerResidual with the activation replaced by the residual
EvoformerResidualReplaces ==
    /\ fn_pc = "add"
    /\ LET call == EvoformerSublayers(fn.is_extra_msa)[locals.step]
       IN  locals' = [locals EXCEPT
               !.msa_act.residuals =
                   IF call.adds_to = "msa" THEN <<locals.residual[1]>> ELSE @,
               !.pair_act.residuals =
                   IF call.adds_to = "pair" THEN <<locals.residual[1]>> ELSE @,
               !.step = @ + 1]
    /\ fn_pc' = IF locals.step = Len(EvoformerSublayers(fn.is_extra_msa))
                THEN "return" ELSE "sublayer"
    /\ UNCHANGED <<config, used_heads, batch, args, driverVars, ipc, iterVars,
                   error, histVars, runModelVars, fn, fn_args, fn_ret>>

\* msa_act = msa_act + residual, or pair_act = pair_act + residual
EvoformerResidual ==
    /\ fn_pc = "add"
    /\ LET call == EvoformerSublayers(fn.is_extra_msa)[locals.step]
       IN  locals' = [locals EXCEPT
               !.msa_act.residuals =
                   IF call.adds_to = "msa" THEN Append(@, locals.residual[1])
                   ELSE @,
               !.pair_act.residuals =
                   IF call.adds_to = "pair" THEN Append(@, locals.residual[1])
                   ELSE @,
               !.step = @ + 1]
    /\ fn_pc' = IF locals.step = Len(EvoformerSublayers(fn.is_extra_msa))
                THEN "return" ELSE "sublayer"
    /\ UNCHANGED <<config, used_heads, batch, args, driverVars, ipc, iterVars,
                   error, histVars, runModelVars, fn, fn_args, fn_ret>>

\* return {'msa': msa_act, 'pair': pair_act}
EvoformerReturn ==
    /\ fn_pc = "return"
    /\ fn_ret' = <<[msa |-> locals.msa_act, pair |-> locals.pair_act]>>
    /\ fn_pc' = "returned"
    /\ UNCHANGED <<config, used_heads, batch, args, driverVars, ipc, iterVars,
                   error, histVars, runModelVars, fn, fn_args, locals>>

NextEvoformer ==
    \/ EvoformerSublayer
    \/ EvoformerDropout
    \/ EvoformerResidual
    \/ EvoformerReturn

SpecEvoformer == InitEvoformer /\ [][NextEvoformer]_vars

\* the order of the sublayers as the claim gives it
ClaimedOrder ==
    << "msa_row_attention_with_pair_bias",
       IF fn.is_extra_msa THEN "msa_column_global_attention"
       ELSE "msa_column_attention",
       "msa_transition", "outer_product_mean",
       "triangle_multiplication_outgoing", "triangle_multiplication_incoming",
       "triangle_attention_starting_node", "triangle_attention_ending_node",
       "pair_transition" >>

\* the residuals of the returned activations: three on the MSA, then six on
\* the pair representation
Applied == fn_ret[1].msa.residuals \o fn_ret[1].pair.residuals

\* the activation that holds the input and the residuals from..to of Applied
After(input, from, to) ==
    [input EXCEPT !.residuals = SubSeq(Applied, from, to)]

\* C20: a block has applied nine sublayers when it returns, the k-th being
\* the k-th of the claimed order (the global column attention iff the block
\* is on the extra-MSA track), each once, and each was called on the
\* activation as the preceding step left it: the three MSA sublayers on the
\* MSA activation with the residuals before them (the first also on the
\* pair input), the outer-product mean on the MSA activation after the
\* transition, and the five pair sublayers on the pair activation with the
\* residuals before them.
C20_SublayerOrder ==
    fn_pc = "returned" =>
        /\ Len(fn_ret[1].msa.residuals) = 3
        /\ Len(fn_ret[1].pair.residuals) = 6
        /\ \A k \in 1..9 : Applied[k].layer = ClaimedOrder[k]
        /\ \A k \in 1..3 :
              /\ Applied[k].msa = <<After(fn_args[1].msa, 1, k - 1)>>
              /\ Applied[k].pair = IF k = 1 THEN <<fn_args[1].pair>> ELSE <<>>
        /\ Applied[4].msa = <<After(fn_args[1].msa, 1, 3)>>
        /\ Applied[4].pair = <<>>
        /\ \A k \in 5..9 :
              /\ Applied[k].pair = <<After(fn_args[1].pair, 4, k - 1)>>
              /\ Applied[k].msa = <<>>

C20_Witness ==
    /\ fn_pc = "returned"
    /\ fn.is_extra_msa
    /\ ~fn.training
    /\ fn_ret[1].msa.residuals[2].layer = "msa_column_global_attention"
    /\ fn_ret[1].pair.residuals[6].layer = "pair_transition"
    /\ Len(fn_ret[1].pair.residuals[6].pair[1].residuals) = 5

\* act + residual: the activation with one more residual
Plus(act, residual) == [act EXCEPT !.residuals = Append(@, residual)]

\* C21: every sublayer is a residual update of one activation that leaves
\* the other as it was: steps 1..3 (the MSA sublayers) make msa_act the old
\* msa_act + residual and keep pair_act, steps 4..9 (the outer-product mean
\* and the pair sublayers) make pair_act the old pair_act + residual and
\* keep msa_act; the activations and masks passed in are never changed; and
\* the msa returned is the msa after the MSA transition, the one the
\* outer-product mean was called on.
C21_ResidualUpdates ==
    /\ [][/\ fn_args' = fn_args
          /\ fn_pc # "add" =>
                /\ locals'.msa_act = locals.msa_act
                /\ locals'.pair_act = locals.pair_act
          /\ fn_pc = "add" /\ locals.step <= 3 =>
                /\ locals'.msa_act = Plus(locals.msa_act, locals.residual[1])
                /\ locals'.pair_act = locals.pair_act
          /\ fn_pc = "add" /\ locals.step >= 4 =>
                /\ locals'.pair_act = Plus(locals.pair_act, locals.residual[1])
                /\ locals'.msa_act = locals.msa_act]_vars
    /\ [](fn_pc = "returned" =>
             /\ fn_ret[1].msa.residuals[3].layer = "msa_transition"
             /\ Len(fn_ret[1].msa.residuals) = 3
             /\ fn_ret[1].pair.residuals[1].layer = "outer_product_mean"
             /\ fn_ret[1].pair.residuals[1].msa = <<fn_ret[1].msa>>
             /\ fn_ret[1].msa.input = fn_args[1].msa.input
             /\ fn_ret[1].pair.input = fn_args[1].pair.input)

C21_Witness ==
    /\ fn_pc = "returned"
    /\ ~fn.is_extra_msa
    /\ fn_args[1].msa.residuals = <<>>
    /\ Len(fn_ret[1].msa.residuals) = 3
    /\ Len(fn_ret[1].pair.residuals) = 6
    /\ fn_ret[1].pair.residuals[2].mask = fn_args[2].pair
    /\ fn_ret[1].pair.residuals[1].mask = fn_args[2].msa

(***************************************************************************)
(* The two Evoformer stacks of EmbeddingsAndEvoformer.forward.  An         *)
(* activation is the tensors it was built from (concatenated along the     *)
(* sequence axis) and the blocks that were applied to it, in order.        *)
(* locals.calls keeps every call of a block: the block, the activations    *)
(* and the masks it was called on.  A variable not yet assigned is <<>>.   *)
(***************************************************************************)
MaxBlocks == 2

\* mask_2d = unsqueeze(seq_mask, 1) * unsqueeze(seq_mask, 2)
Mask2d(seq_mask) ==
    LET shape == <<seq_mask.shape[1], seq_mask.shape[2], seq_mask.shape[2]>>
    IN  [shape |-> shape,
         at |-> [idx \in Indices(shape) |->
                    seq_mask.at[<<idx[1], idx[3]>>] * seq_mask.at[<<idx[1], idx[2]>>]]]

\* an activation or mask built from the named tensors, no block applied
Built(names) == [from |-> names, blocks |-> <<>>]

\* the output of one block: each activation with the block applied
BlockOutput(stack, i, activations) ==
    [msa  |-> [activations.msa EXCEPT !.blocks = Append(@, <<stack, i>>)],
     pair |-> [activations.pair EXCEPT !.blocks = Append(@, <<stack, i>>)]]

\* MainStackInput with the MSA output of the extra-MSA stack
MainStackInputOfExtra(msa_activations, extra_msa_stack_output) ==
    [msa  |-> extra_msa_stack_output.msa,
     pair |-> extra_msa_stack_output.pair]

\* evoformer_input = {'msa': msa_activations,
\*                    'pair': extra_msa_stack_output['pair']}
MainStackInput(msa_activations, extra_msa_stack_output) ==
    [msa  |-> msa_activations,
     pair |-> extra_msa_stack_output.pair]

InitStacks ==
    /\ \E R \in 0..0 :
          config = MakeConfig(R, FALSE, TRUE, TRUE, <<Item("structure_module", 1)>>)
    /\ used_heads = UsedHeads(config.heads)
    /\ batch = MakeBatch(1, 1, 2, 1, TRUE, -1)
    /\ args = [ensemble_representations |-> TRUE,
               return_representations |-> TRUE]
    /\ Idle
    /\ NoRunModel
    /\ \E n \in 0..MaxBlocks, k \in 0..MaxBlocks,
          enabled \in BOOLEAN, embed_torsion_angles \in BOOLEAN :
          fn = [name |-> "embeddings_and_evoformer",
                extra_msa_stack_num_block |-> n, evoformer_num_block |-> k,
                template |-> [enabled |-> enabled,
                              embed_torsion_angles |-> embed_torsion_angles]]
    /\ \E N \in 1..MaxRes : \E mask \in [Indices(<<1, N>>) -> MaskValues] :
          fn_args = <<[seq_mask |-> [shape |-> <<1, N>>, at |-> mask]]>>
    /\ locals = [msa_activations |-> Built(<<"msa_activations">>),
                 pair_activations |-> Built(<<"pair_activations">>),
                 mask_2d |-> Mask2d(fn_args[1].seq_mask),
                 i |-> 1,
                 extra_msa_stack_input |->
                     [msa  |-> Built(<<"extra_msa_activations">>),
                      pair |-> Built(<<"pair_activations">>)],
                 extra_msa_stack_output |-> <<>>,
                 evoformer_input |-> <<>>,
                 evoformer_masks |-> <<>>,
                 evoformer_output |-> <<>>,
                 calls |-> <<>>,
                 raised |-> <<>>]
    /\ fn_pc = "extra_msa_stack"
    /\ fn_ret = <<>>

\* one pass of `for extra_msa_stack_iteration in self.extra_msa_stack:`
ExtraMsaBlock ==
    /\ fn_pc = "extra_msa_stack"
    /\ locals.i <= fn.extra_msa_stack_num_block
    /\ LET masks == [msa |-> Built(<<"extra_msa_mask">>), pair |-> locals.mask_2d]
           out == BlockOutput("extra_msa_stack", locals.i,
                              locals.extra_msa_stack_input)
       IN  locals' = [locals EXCEPT
               !.calls = Append(@, [stack |-> "extra_msa_stack", i |-> locals.i,
                                    activations |-> locals.extra_msa_stack_input,
                                    masks |-> masks]),
               !.extra_msa_stack_output = <<out>>,
               !.extra_msa_stack_input = out,
               !.i = @ + 1]
    /\ UNCHANGED <<config, used_heads, batch, args, driverVars, ipc, iterVars,
                   error, histVars, runModelVars, fn, fn_args, fn_pc, fn_ret>>

\* evoformer_input and evoformer_masks are built after the loop
EvoformerInput ==
    /\ fn_pc = "extra_msa_stack"
    /\ locals.i > fn.extra_msa_stack_num_block
    /\ locals.extra_msa_stack_output # <<>>
    /\ locals' = [locals EXCEPT
           !.evoformer_input = <<MainStackInput(locals.msa_activations,
                                     locals.extra_msa_stack_output[1])>>,
           !.evoformer_masks = <<[msa |-> Built(<<"msa_mask">>),
                                  pair |-> locals.mask_2d]>>,
           !.i = 1]
    /\ fn_pc' = "template_angle"
    /\ UNCHANGED <<config, used_heads, batch, args, driverVars, ipc, iterVars,
                   error, histVars, runModelVars, fn, fn_args, fn_ret>>

\* with no extra-MSA block extra_msa_stack_output was never assigned
EvoformerInputUnbound ==
    /\ fn_pc = "extra_msa_stack"
    /\ locals.i > fn.extra_msa_stack_num_block
    /\ locals.extra_msa_stack_output = <<>>
    /\ locals' = [locals EXCEPT !.raised = <<"UnboundLocalError">>]
    /\ fn_pc' = "raised"
    /\ UNCHANGED <<config, used_heads, batch, args, driverVars, ipc, iterVars,
                   error, histVars, runModelVars, fn, fn_args, fn_ret>>

\* `if self.config.template.enabled and
\*  self.config.template.embed_torsion_angles:` the template rows and their
\* mask are concatenated to the MSA and to its mask
TemplateAngleFeat ==
    /\ fn_pc = "template_angle"
    /\ locals' =
          IF fn.template.enabled /\ fn.template.embed_torsion_angles
          THEN [locals EXCEPT
                   !.evoformer_input[1].msa.from =
                       @ \o <<"template_activations">>,
                   !.evoformer_masks[1].msa.from =
                       @ \o <<"torsion_angle_mask">>]
          ELSE locals
    /\ fn_pc' = "evoformer_iteration"
    /\ UNCHANGED <<config, used_heads, batch, args, driverVars, ipc, iterVars,
                   error, histVars, runModelVars, fn, fn_args, fn_ret>>

\* one pass of `for evoformer_block in self.evoformer_iteration:`
EvoformerBlock ==
    /\ fn_pc = "evoformer_iteration"
    /\ locals.i <= fn.evoformer_num_block
    /\ LET out == BlockOutput("evoformer_iteration", locals.i,
                              locals.evoformer_input[1])
       IN  locals' = [locals EXCEPT
               !.calls = Append(@, [stack |-> "evoformer_iteration",
                                    i |-> locals.i,
                                    activations |-> locals.evoformer_input[1],
                                    masks |-> locals.evoformer_masks[1]]),
               !.evoformer_output = <<out>>,
               !.evoformer_input = <<out>>,
               !.i = @ + 1]
    /\ UNCHANGED <<config, used_heads, batch, args, driverVars, ipc, iterVars,
                   error, histVars, runModelVars, fn, fn_args, fn_pc, fn_ret>>

\* msa_activations = evoformer_output['msa'] ... return output
StacksReturn ==
    /\ fn_pc = "evoformer_iteration"
    /\ locals.i > fn.evoformer_num_block
    /\ locals.evoformer_output # <<>>
    /\ fn_ret' = <<[msa  |-> locals.evoformer_output[1].msa,
                    pair |-> locals.evoformer_output[1].pair]>>
    /\ fn_pc' = "returned"
    /\ UNCHANGED <<config, used_heads, batch, args, driverVars, ipc, iterVars,
                   error, histVars, runModelVars, fn, fn_args, locals>>

\* with no main block evoformer_output was never assigned
StacksReturnUnbound ==
    /\ fn_pc = "evoformer_iteration"
    /\ locals.i > fn.evoformer_num_block
    /\ locals.evoformer_output = <<>>
    /\ locals' = [locals EXCEPT !.raised = <<"UnboundLocalError">>]
    /\ fn_pc' = "raised"
    /\ UNCHANGED <<config, used_heads, batch, args, driverVars, ipc, iterVars,
                   error, histVars, runModelVars, fn, fn_args, fn_ret>>

NextStacks ==
    \/ ExtraMsaBlock
    \/ EvoformerInput
    \/ EvoformerInputUnbound
    \/ TemplateAngleFeat
    \/ EvoformerBlock
    \/ StacksReturn
    \/ StacksReturnUnbound

SpecStacks == InitStacks /\ [][NextStacks]_vars

\* the blocks <<stack, 1>> .. <<stack, n>>
Blocks(stack, n) == [i \in 1..n |-> <<stack, i>>]

\* the calls are those of the extra-MSA blocks in list order, then those of
\* the main blocks in list order, each block called on what its predecessor
\* returned, and every call gets the pair mask outer(seq_mask, seq_mask)
StacksInOrder ==
    LET n == fn.extra_msa_stack_num_block
        cs == locals.calls
    IN  /\ \A c \in 1..Len(cs) :
              /\ cs[c].stack = IF c <= n THEN "extra_msa_stack"
                                  ELSE "evoformer_iteration"
              /\ cs[c].i = IF c <= n THEN c ELSE c - n
              /\ cs[c].masks.pair = Mask2d(fn_args[1].seq_mask)
              /\ c <= n =>
                    /\ cs[c].activations.msa.blocks =
                           Blocks("extra_msa_stack", c - 1)
                    /\ cs[c].activations.pair.blocks =
                           Blocks("extra_msa_stack", c - 1)
              /\ c > n =>
                    /\ n >= 1
                    /\ cs[c].activations.pair.blocks =
                           Blocks("extra_msa_stack", n)
                           \o Blocks("evoformer_iteration", c - n - 1)
                    /\ cs[c].activations.msa.blocks =
                           Blocks("evoformer_iteration", c - n - 1)
        /\ Len(cs) > n =>
              /\ cs[n + 1].activations.pair =
                     BlockOutput("extra_msa_stack", n, cs[n].activations).pair
              /\ cs[n + 1].activations.msa.from[1] = "msa_activations"

IterationRet(bt, idx) ==
    LET B == bt["aatype"].shape[1]
        N == bt["aatype"].shape[3]
        Out(op, shape) == Computed(shape, Term(op, <<>>, idx + 1, <<>>))
    IN  [structure_module |->
             [final_atom_positions |->
                 Out("final_atom_positions", <<B, N, atom_type_num, 3>>)],
         representations |->
             [msa_first_row |-> Out("msa_first_row", <<B, N, msa_channel>>),
              pair |-> Out("pair", <<B, N, N, pair_channel>>)]]

\* SliceBatchObject with the recycling state merged into ensembled_batch
\* itself
SliceBatchObjectInPlace(heap, eb, neb, i) ==
    [heap |-> [heap EXCEPT ![eb] = SliceBatch(heap[eb], heap[neb], i)],
     b |-> eb]

\* _slice_batch(i): b is a new dict, and only b is updated
SliceBatchObject(heap, eb, neb, i) ==
    [heap |-> Append(heap, SliceBatch(heap[eb], heap[neb], i)),
     b |-> Len(heap) + 1]

\* a batch that may hold a key with the name of a recycling key
MakeBatchWithPrev(E, with_prev) ==
    LET bt == MakeBatch(1, E, 2, 1, TRUE, -1)
    IN  IF with_prev
        THEN DictUpdate(bt, [prev_pair |->
                 [shape |-> <<1, E, 2, 2, pair_channel>>,
                  data |-> [j \in 1..E |-> j]]])
        ELSE bt

InitBatch ==
    /\ \E R \in 0..MaxRecycle, resample \in BOOLEAN :
          config = MakeConfig(R, resample, TRUE, TRUE,
                              <<Item("structure_module", 1)>>)
    /\ used_heads = UsedHeads(config.heads)
    /\ \E E \in 1..MaxEnsemble, with_prev \in BOOLEAN :
          batch = MakeBatchWithPrev(
                      IF config.resample_msa_in_recycling
                      THEN (config.num_recycle + 1) * E ELSE E, with_prev)
    /\ \E ensemble_representations \in BOOLEAN :
          args = [ensemble_representations |-> ensemble_representations,
                  return_representations |-> TRUE]
    /\ Idle
    /\ NoRunModel
    /\ fn = [name |-> "forward"]
    /\ fn_args = <<batch>>
    /\ locals = [heap |-> <<batch>>, batch |-> 1, prev |-> 0, num_iter |-> 0,
                 recycle_idx |-> 0, ensembled_batch |-> 0,
                 non_ensembled_batch |-> 0, num_ensemble |-> 0, i |-> 0,
                 b |-> 0]
    /\ fn_pc = "start"
    /\ fn_ret = <<>>

\* AlphaFold.forward up to the loop: prev is a new dict
BatchForward ==
    /\ fn_pc = "start"
    /\ fn.name = "forward"
    /\ LET start == RecyclingStart(config, locals.heap[locals.batch])
       IN  locals' = [locals EXCEPT
               !.heap = Append(@, start.prev),
               !.prev = Len(locals.heap) + 1,
               !.num_iter = start.num_iter]
    /\ fn_pc' = "run_single_recycling"
    /\ UNCHANGED <<config, used_heads, batch, args, driverVars, ipc, iterVars,
                   error, histVars, runModelVars, fn, fn_args, fn_ret>>

\* _run_single_recycling up to the call: ensembled_batch is a new dict of
\* slices under resample_msa_in_recycling, and the batch itself otherwise
BatchRunSingleRecycling ==
    /\ fn_pc = "run_single_recycling"
    /\ LET bt == locals.heap[locals.batch]
           eb == EnsembledBatch(config, bt, locals.recycle_idx)
       IN  locals' =
               IF config.resample_msa_in_recycling
               THEN [locals EXCEPT
                        !.heap = Append(@, eb),
                        !.ensembled_batch = Len(locals.heap) + 1,
                        !.non_ensembled_batch = locals.prev,
                        !.num_ensemble = NumEnsemble(eb), !.i = 0, !.b = 0]
               ELSE [locals EXCEPT
                        !.ensembled_batch = locals.batch,
                        !.non_ensembled_batch = locals.prev,
                        !.num_ensemble = NumEnsemble(eb), !.i = 0, !.b = 0]
    /\ fn_pc' = "iteration"
    /\ UNCHANGED <<config, used_heads, batch, args, driverVars, ipc, iterVars,
                   error, histVars, runModelVars, fn, fn_args, fn_ret>>

\* `assert num_ensemble == 1` fails
BatchAssertFails ==
    /\ fn_pc = "iteration"
    /\ locals.i = 0
    /\ ~EnsembleAssertion(args.ensemble_representations, locals.num_ensemble)
    /\ fn_pc' = "raised"
    /\ UNCHANGED <<config, used_heads, batch, args, driverVars, ipc, iterVars,
                   error, histVars, runModelVars, fn, fn_args, locals, fn_ret>>

\* batch0 = _slice_batch(0), or batch = _slice_batch(i) in the loop, and
\* the evoformer is evaluated on it
BatchSliceBatch ==
    /\ fn_pc = "iteration"
    /\ EnsembleAssertion(args.ensemble_representations, locals.num_ensemble)
    /\ \/ locals.i = 0
       \/ args.ensemble_representations /\ MembersLeft(locals.i, locals.num_ensemble)
    /\ LET s == SliceBatchObject(locals.heap, locals.ensembled_batch,
                                 locals.non_ensembled_batch, locals.i)
       IN  locals' = [locals EXCEPT !.heap = s.heap, !.b = s.b, !.i = @ + 1]
    /\ UNCHANGED <<config, used_heads, batch, args, driverVars, ipc, iterVars,
                   error, histVars, runModelVars, fn, fn_args, fn_pc, fn_ret>>

\* the invocation returns; in the loop prev = _get_prev(ret), a new dict
BatchIterationReturn ==
    /\ fn_pc = "iteration"
    /\ locals.i >= 1
    /\ ~(args.ensemble_representations
         /\ MembersLeft(locals.i, locals.num_ensemble))
    /\ IF locals.recycle_idx < locals.num_iter
       THEN /\ locals' = [locals EXCEPT
                   !.heap = Append(@, GetPrev(IterationRet(
                                locals.heap[locals.batch], locals.recycle_idx))),
                   !.prev = Len(locals.heap) + 1,
                   !.recycle_idx = @ + 1]
            /\ fn_pc' = "run_single_recycling"
            /\ UNCHANGED fn_ret
       ELSE /\ fn_ret' = <<IterationRet(locals.heap[locals.batch],
                                        locals.recycle_idx)>>
            /\ fn_pc' = "returned"
            /\ UNCHANGED locals
    /\ UNCHANGED <<config, used_heads, batch, args, driverVars, ipc, iterVars,
                   error, histVars, runModelVars, fn, fn_args>>

NextBatch ==
    \/ BatchForward
    \/ BatchRunSingleRecycling
    \/ BatchAssertFails
    \/ BatchSliceBatch
    \/ BatchIterationReturn

SpecBatch == InitBatch /\ [][NextBatch]_vars

\* C23: at every point of AlphaFold.forward the caller's batch has the keys
\* and values it was passed with (no prev_* key is added to it), and the
\* mapping a member is evaluated on is a new dict, neither the batch nor
\* the ensembled batch nor the recycling state, that holds the member's
\* slice of every ensembled key and every recycling key, the recycling
\* value where both have the key.
C23_BatchNotMutated ==
    /\ locals.heap[locals.batch] = fn_args[1]
    /\ locals.b # 0 =>
          LET eb  == locals.heap[locals.ensembled_batch]
              neb == locals.heap[locals.non_ensembled_batch]
              b   == locals.heap[locals.b]
          IN  /\ locals.b \notin {locals.batch, locals.ensembled_batch,
                                  locals.non_ensembled_batch}
              /\ DOMAIN b = (DOMAIN eb) \cup (DOMAIN neb)
              /\ \A k \in DOMAIN b :
                    b[k] = IF k \in DOMAIN neb THEN neb[k]
                           ELSE IndexAxis1(eb[k], locals.i - 1)
              /\ DOMAIN eb = DOMAIN fn_args[1]

C23_Witness ==
    /\ fn_pc = "returned"
    /\ ~config.resample_msa_in_recycling
    /\ locals.ensembled_batch = locals.batch
    /\ config.num_recycle = 2
    /\ locals.i = 2
    /\ "prev_pair" \in DOMAIN fn_args[1]
    /\ locals.heap[locals.b]["prev_pair"]
           = locals.heap[locals.non_ensembled_batch]["prev_pair"]
    /\ locals.heap[locals.b]["prev_pair"]
           # IndexAxis1(fn_args[1]["prev_pair"], 1)
    /\ "prev_pos" \in DOMAIN locals.heap[locals.b]
    /\ "prev_pos" \notin DOMAIN locals.heap[locals.batch]

(***************************************************************************)
(* TriangleMultiplication.forward.                                         *)
(***************************************************************************)
\* the equations a configuration may hold: the two of the model and two
\* that are not
TriangleEquations == {"ikc,jkc->ijc", "kjc,kic->ijc", "ijc,ikc->jkc", ""}

\* KnownEquation that takes every equation
KnownEquationAny(equation) == TRUE

\* whether forward has a branch for config.equation
KnownEquation(equation) ==
    equation = "ikc,jkc->ijc" \/ equation = "kjc,kic->ijc"

RECURSIVE ChunkOuts(_, _, _, _)
\* the outputs of the chunks from slice_at on
ChunkOuts(call, closure, bs, slice_at) ==
    IF slice_at >= DimWidth(call) THEN <<>>
    ELSE <<Apply(call.f, ChunkArgs(call, slice_at, bs), closure)>>
         \o ChunkOuts(call, closure, bs, slice_at + bs)

\* subbatch(f, arg_idx, dim, bs, out_idx)(*args)
SubbatchCall(call, closure, bs) ==
    Concat(ChunkOuts(call, closure, bs, 0), call.out_idx)

\* center_layer_norm, output_projection and the gate: element [b,i,j,o] is
\* computed from the channels of act at [b,i,j] and from the gate
TriangleOutput(act) ==
    [shape |-> act.shape,
     at |-> [idx \in Indices(act.shape) |->
                [op |-> "triangle_multiplication", o |-> idx[4],
                 x |-> Row(act, Front(idx)),
                 gate |-> <<"gate_values", idx>>]]]

InitTriangle ==
    /\ \E R \in 0..0 :
          config = MakeConfig(R, FALSE, TRUE, TRUE, <<Item("structure_module", 1)>>)
    /\ used_heads = UsedHeads(config.heads)
    /\ batch = MakeBatch(1, 1, 2, 1, TRUE, -1)
    /\ args = [ensemble_representations |-> TRUE,
               return_representations |-> TRUE]
    /\ Idle
    /\ NoRunModel
    /\ \E equation \in TriangleEquations, training \in BOOLEAN,
          bs \in 1..MaxChunk :
          fn = [name |-> "triangle_multiplication", equation |-> equation,
                training |-> training, subbatch_size |-> bs]
    /\ \E N \in 1..MaxRes :
          fn_args = <<Labelled("act", <<1, N, N, 1>>),
                      Labelled("mask", <<1, N, N>>)>>
    /\ locals = [left_proj_act |-> <<>>, right_proj_act |-> <<>>,
                 act |-> <<>>, raised |-> <<>>]
    /\ fn_pc = "call"
    /\ fn_ret = <<>>

\* the projections and the gates, up to the choice of the equation
TriangleProjections ==
    /\ fn_pc = "call"
    /\ fn.name = "triangle_multiplication"
    /\ locals' = [locals EXCEPT
           !.left_proj_act = <<Labelled("left_proj_act", fn_args[1].shape)>>,
           !.right_proj_act = <<Labelled("right_proj_act", fn_args[1].shape)>>]
    /\ fn_pc' = "equation"
    /\ UNCHANGED <<config, used_heads, batch, args, driverVars, ipc, iterVars,
                   error, histVars, runModelVars, fn, fn_args, fn_ret>>

\* `else: raise ValueError('unknown equation.')`
TriangleRaises ==
    /\ fn_pc = "equation"
    /\ ~KnownEquation(fn.equation)
    /\ locals' = [locals EXCEPT !.raised = <<"ValueError">>]
    /\ fn_pc' = "raised"
    /\ UNCHANGED <<config, used_heads, batch, args, driverVars, ipc, iterVars,
                   error, histVars, runModelVars, fn, fn_args, fn_ret>>

\* the contraction, in sub-batches unless in training
TriangleEinsum ==
    /\ fn_pc = "equation"
    /\ KnownEquation(fn.equation)
    /\ LET d == TriangleMultiplicationDims(fn.equation)
           call == [f |-> "einsum", arg_idx |-> <<1>>, dim |-> <<d.dim>>,
                    out_idx |-> d.out_idx,
                    args |-> <<d.equation, locals.left_proj_act[1],
                               locals.right_proj_act[1]>>]
       IN  locals' = [locals EXCEPT !.act =
               IF ~fn.training
               THEN <<SubbatchCall(call, <<>>, fn.subbatch_size)>>
               ELSE <<Einsum(d.equation, locals.left_proj_act[1],
                             locals.right_proj_act[1])>>]
    /\ fn_pc' = "einsum"
    /\ UNCHANGED <<config, used_heads, batch, args, driverVars, ipc, iterVars,
                   error, histVars, runModelVars, fn, fn_args, fn_ret>>

\* act = self.center_layer_norm(act) ... return act
TriangleReturn ==
    /\ fn_pc = "einsum"
    /\ fn_ret' = <<TriangleOutput(locals.act[1])>>
    /\ fn_pc' = "returned"
    /\ UNCHANGED <<config, used_heads, batch, args, driverVars, ipc, iterVars,
                   error, histVars, runModelVars, fn, fn_args, locals>>

NextTriangle ==
    \/ TriangleProjections
    \/ TriangleRaises
    \/ TriangleEinsum
    \/ TriangleReturn

SpecTriangle == InitTriangle /\ [][NextTriangle]_vars

\* the elements read by term k of the contraction at [b,i,j,c]
Contracted(idx, k) ==
    LET t == locals.act[1].at[idx].sum[k]
    IN  [left |-> t.left[2], right |-> t.right[2]]

\* C24: with an equation that is neither 'ikc,jkc->ijc' nor 'kjc,kic->ijc'
\* forward raises ValueError with no contraction computed and nothing
\* returned; with 'ikc,jkc->ijc' element [i,j] of the contraction sums
\* left[i,k] * right[j,k] over the second index k, and with 'kjc,kic->ijc'
\* it sums left[k,j] * right[k,i] over the first index k.
C24_Equations ==
    /\ fn_pc \in {"einsum", "returned", "raised"} =>
          IF fn.equation \in {"ikc,jkc->ijc", "kjc,kic->ijc"}
          THEN fn_pc # "raised" /\ locals.raised = <<>>
          ELSE /\ fn_pc = "raised"
               /\ locals.raised = <<"ValueError">>
               /\ locals.act = <<>>
               /\ fn_ret = <<>>
    /\ fn_pc \in {"einsum", "returned"} =>
          LET N == fn_args[1].shape[2]
          IN  /\ locals.act[1].shape = <<1, N, N, 1>>
              /\ \A idx \in Indices(<<1, N, N, 1>>) :
                    /\ Len(locals.act[1].at[idx].sum) = N
                    /\ \A k \in 1..N :
                          Contracted(idx, k) =
                              IF fn.equation = "ikc,jkc->ijc"
                              THEN [left  |-> <<idx[1], idx[2], k - 1, idx[4]>>,
                                    right |-> <<idx[1], idx[3], k - 1, idx[4]>>]
                              ELSE [left  |-> <<idx[1], k - 1, idx[3], idx[4]>>,
                                    right |-> <<idx[1], k - 1, idx[2], idx[4]>>]

C24_Witness ==
    /\ fn_pc = "raised"
    /\ fn.equation = "ijc,ikc->jkc"
    /\ ~fn.training
    /\ locals.left_proj_act # <<>>
    /\ locals.raised = <<"ValueError">>
    /\ fn_args[1].shape = <<1, 3, 3, 1>>

(***************************************************************************)
(* The relative-position feature of EmbeddingsAndEvoformer.forward.        *)
(***************************************************************************)
MaxRelative == 2

MaxIndex == 4

\* x - y of two integer tensors, y broadcast along axis 1 and x along axis 2:
\* unsqueeze(pos, -1) - unsqueeze(pos, -2)
OuterDifference(pos) ==
    LET shape == <<pos.shape[1], pos.shape[2], pos.shape[2]>>
    IN  [shape |-> shape,
         at |-> [idx \in Indices(shape) |->
                    pos.at[<<idx[1], idx[2]>>] - pos.at[<<idx[1], idx[3]>>]]]

\* ClipScalar without the lower bound
ClipScalarAbove(x, lo, hi) == IF x > hi THEN hi ELSE x

\* paddle.clip of one element
ClipScalar(x, lo, hi) == IF x < lo THEN lo ELSE IF x > hi THEN hi ELSE x

\* paddle.clip(t + s, min=lo, max=hi)
ClipShifted(t, s, lo, hi) ==
    [shape |-> t.shape,
     at |-> [idx \in Indices(t.shape) |-> ClipScalar(t.at[idx] + s, lo, hi)]]

\* nn.functional.one_hot(t, num_classes); a class outside 0..num_classes-1
\* sets no element
OneHot(t, num_classes) ==
    LET shape == t.shape \o <<num_classes>>
    IN  [shape |-> shape,
         at |-> [idx \in Indices(shape) |->
                    IF t.at[Front(idx)] = idx[Len(idx)] THEN 1 ELSE 0]]

InitRelPos ==
    /\ \E R \in 0..0 :
          config = MakeConfig(R, FALSE, TRUE, TRUE, <<Item("structure_module", 1)>>)
    /\ used_heads = UsedHeads(config.heads)
    /\ batch = MakeBatch(1, 1, 2, 1, TRUE, -1)
    /\ args = [ensemble_representations |-> TRUE,
               return_representations |-> TRUE]
    /\ Idle
    /\ NoRunModel
    /\ \E mrf \in 0..MaxRelative :
          fn = [name |-> "relpos", max_relative_feature |-> mrf]
    /\ \E N \in 1..MaxRes : \E pos \in [Indices(<<1, N>>) -> 0..MaxIndex] :
          fn_args = <<[residue_index |-> [shape |-> <<1, N>>, at |-> pos]]>>
    /\ locals = [offset |-> <<>>, rel_pos |-> <<>>]
    /\ fn_pc = "call"
    /\ fn_ret = <<>>

\* `if self.config.max_relative_feature:` is false
RelPosSkipped ==
    /\ fn_pc = "call"
    /\ fn.name = "relpos"
    /\ fn.max_relative_feature = 0
    /\ fn_pc' = "returned"
    /\ UNCHANGED <<config, used_heads, batch, args, driverVars, ipc, iterVars,
                   error, histVars, runModelVars, fn, fn_args, locals, fn_ret>>

\* pos = batch['residue_index']; offset = ...
RelPosOffset ==
    /\ fn_pc = "call"
    /\ fn.name = "relpos"
    /\ fn.max_relative_feature # 0
    /\ locals' = [locals EXCEPT
                     !.offset = <<OuterDifference(fn_args[1].residue_index)>>]
    /\ fn_pc' = "offset"
    /\ UNCHANGED <<config, used_heads, batch, args, driverVars, ipc, iterVars,
                   error, histVars, runModelVars, fn, fn_args, fn_ret>>

\* rel_pos = one_hot(clip(offset + m, min=0, max=2 * m), 2 * m + 1)
RelPosOneHot ==
    /\ fn_pc = "offset"
    /\ LET mrf == fn.max_relative_feature
       IN  locals' = [locals EXCEPT !.rel_pos =
               <<OneHot(ClipShifted(locals.offset[1], mrf, 0, 2 * mrf),
                        2 * mrf + 1)>>]
    /\ fn_pc' = "returned"
    /\ UNCHANGED <<config, used_heads, batch, args, driverVars, ipc, iterVars,
                   error, histVars, runModelVars, fn, fn_args, fn_ret>>

NextRelPos ==
    \/ RelPosSkipped
    \/ RelPosOffset
    \/ RelPosOneHot

SpecRelPos == InitRelPos /\ [][NextRelPos]_vars

\* the bin the claim gives the offset d under max_relative_feature mrf
ClaimedBin(d, mrf) ==
    IF d >= mrf THEN 2 * mrf ELSE IF d <= 0 - mrf THEN 0 ELSE d + mrf

\* C25: with max_relative_feature m >= 1, for every pair of residues the
\* feature has 2m+1 bins of which exactly one is set, the bin
\* clip(i - j + m, 0, 2m) of the offset i - j of their residue indices:
\* bin 2m for every offset >= m and bin 0 for every offset <= -m.
C25_RelPosOneHot ==
    fn_pc = "returned" /\ fn.max_relative_feature >= 1 =>
        LET mrf == fn.max_relative_feature
            pos == fn_args[1].residue_index
            N   == pos.shape[2]
            rel_pos == locals.rel_pos[1]
        IN  /\ rel_pos.shape = <<1, N, N, 2 * mrf + 1>>
            /\ \A i, j \in 0..(N - 1) :
                  LET bin == ClaimedBin(pos.at[<<0, i>>] - pos.at[<<0, j>>], mrf)
                  IN  /\ bin \in 0..(2 * mrf)
                      /\ \A c \in 0..(2 * mrf) :
                            rel_pos.at[<<0, i, j, c>>] = IF c = bin THEN 1 ELSE 0

C25_Witness ==
    /\ fn_pc = "returned"
    /\ fn.max_relative_feature = 1
    /\ fn_args[1].residue_index.shape = <<1, 3>>
    /\ fn_args[1].residue_index.at[<<0, 0>>] = 0
    /\ fn_args[1].residue_index.at[<<0, 1>>] = 1
    /\ fn_args[1].residue_index.at[<<0, 2>>] = 4
    /\ locals.rel_pos[1].at[<<0, 0, 2, 0>>] = 1
    /\ locals.rel_pos[1].at[<<0, 1, 2, 0>>] = 1
    /\ locals.rel_pos[1].at[<<0, 2, 0, 2>>] = 1
    /\ locals.rel_pos[1].at[<<0, 1, 0, 2>>] = 1
    /\ locals.rel_pos[1].at[<<0, 1, 1, 1>>] = 1

(***************************************************************************)
(* Properties of the assertions of AlphaFoldIteration.                     *)
(***************************************************************************)

\* the members the running invocation was given
Members == ensembled_batch["seq_length"].shape[2]

\* the running invocation is past its assertion on the members
PastEntry == Len(calls) >= 1 /\ ipc \in {"ensemble", "heads", "run_heads",
                                          "returned", "raised"}

\* the evaluations of the evoformer of the running invocation are over
EvaluationsOver ==
    \/ ipc \in {"heads", "run_heads", "returned"}
    \/ ipc = "raised" /\ evoformer_inputs # <<>>

\* C26: without ensembling, an invocation given a number of members other
\* than 1 fails the assertion with no evaluation of the evoformer, and one
\* given 1 member performs exactly one evaluation; with ensembling, an
\* invocation given E members performs exactly E evaluations.
C26_MemberAssertion ==
    PastEntry =>
        /\ ~args.ensemble_representations /\ Members # 1 =>
              /\ ipc = "raised"
              /\ error = "AssertionError"
              /\ evoformer_inputs = <<>>
        /\ ~args.ensemble_representations /\ Members = 1 =>
              Len(evoformer_inputs) = 1
        /\ args.ensemble_representations =>
              /\ Len(evoformer_inputs) >= 1
              /\ Len(evoformer_inputs) <= Members
              /\ EvaluationsOver => Len(evoformer_inputs) = Members

C26_Witness ==
    /\ PastEntry
    /\ ~args.ensemble_representations
    /\ Members = 3
    /\ ipc = "raised"
    /\ error = "AssertionError"
    /\ evoformer_inputs = <<>>
    /\ Len(calls) = 1

\* the structure module has weight zero or is not in config.heads
StructureInactive == "structure_module" \notin ActiveHeads

\* the heads were reached: the evoformer was evaluated on every member the
\* invocation uses, and ret holds the representations only
FailedAtHeads ==
    /\ Len(evoformer_inputs) =
           (IF args.ensemble_representations THEN Members ELSE 1)
    /\ DOMAIN iret = {"representations"}

\* C27 as stated: a model whose structure module is not active fails every
\* invocation at the enumeration of the heads, after the evoformer has run.
C27_AsStated ==
    StructureInactive /\ ipc = "raised" =>
        /\ error = "AssertionError"
        /\ FailedAtHeads

\* C27, amended: a model whose structure module is not active is
\* constructed, without the structure module among its heads; an invocation
\* that passes the assertion on the members fails the assertion of
\* _get_heads after the evoformer has run on every member and before any
\* head has run, and one that does not pass it fails before the evoformer
\* runs; no invocation returns, so the first is the only one, and forward
\* returns no dict.
C27_NoStructureModule ==
    StructureInactive =>
        /\ "structure_module" \notin Instantiated
        /\ ipc \notin {"run_heads", "returned"}
        /\ pc # "done"
        /\ ret = EmptyDict
        /\ Len(calls) <= 1
        /\ \A c \in 1..Len(calls) :
              calls[c].heads_run = <<>> /\ ~calls[c].returned
        /\ ipc = "raised" =>
              /\ error = "AssertionError"
              /\ IF EnsembleAssertion(args.ensemble_representations, Members)
                 THEN FailedAtHeads
                 ELSE evoformer_inputs = <<>>
        /\ pc = "failed" => error = "AssertionError"

C27_Witness ==
    /\ StructureInactive
    /\ Len(config.heads) = 2
    /\ config.heads[1].name = "distogram"
    /\ config.heads[1].weight = 1
    /\ \A i \in 1..Len(config.heads) : config.heads[i].name # "structure_module"
    /\ pc = "failed"
    /\ error = "AssertionError"
    /\ Len(evoformer_inputs) = 1
    /\ DOMAIN iret = {"representations"}

\* the configured heads of non-zero weight whose name has no module
ModulelessHeads ==
    {config.heads[i].name : i \in {j \in 1..Len(config.heads) :
        config.heads[j].weight # 0 /\ config.heads[j].name \notin Head_modules}}

\* C28: a configured head of non-zero weight whose name is not one of the
\* four of Head_modules is not instantiated, is run by no invocation and
\* names no key of any dict of predictions; it raises nothing (an
\* invocation raises only on the two assertions, on the members and on the
\* structure module), and an invocation returns the dict it would return
\* without it: the representations and the active heads.
C28_ModulelessHeads ==
    /\ ModulelessHeads \cap Instantiated = {}
    /\ ModulelessHeads \cap DOMAIN iret = {}
    /\ ModulelessHeads \cap DOMAIN ret = {}
    /\ \A c \in 1..Len(calls) :
          \A j \in 1..Len(calls[c].heads_run) :
              calls[c].heads_run[j] \notin ModulelessHeads
    /\ error # "none" =>
          /\ error = "AssertionError"
          /\ \/ StructureInactive
             \/ ~EnsembleAssertion(args.ensemble_representations, Members)
    /\ ipc = "returned" => DOMAIN iret = {"representations"} \cup ActiveHeads

C28_Witness ==
    /\ ModulelessHeads = {"masked_msa"}
    /\ Len(config.heads) = 3
    /\ ZeroWeightHeads = {"distogram"}
    /\ pc = "done"
    /\ error = "none"
    /\ DOMAIN ret = {"representations", "structure_module"}

\* the heads the invocation in progress has run so far
HeadsRun ==
    IF calls = <<>> THEN {}
    ELSE {calls[Len(calls)].heads_run[j] :
              j \in 1..Len(calls[Len(calls)].heads_run)}

\* the keys of the evaluation's representations before any head ran
EvoformerKeys == {"single", "pair", "msa", "msa_first_row"}

\* C29: once a head has run, its entry of the dict of predictions has no
\* "representations" key and what it returned under that key is in the
\* shared representations, which the dict holds under "representations":
\* from the structure module on, the shared representations hold its
\* "structure_module" entry, the predicted-lDDT head's logits are computed
\* from that entry, the dict an invocation returns (and the driver returns
\* under return_representations) holds it, and the recycling state is read
\* from the merged mapping.
C29_RepresentationsMerged ==
    /\ ipc \in {"run_heads", "returned"} =>
          /\ \A h \in HeadsRun :
                /\ h \in DOMAIN iret
                /\ "representations" \notin DOMAIN iret[h]
          /\ HeadsRun # {} => iret["representations"] = representations
          /\ "structure_module" \in HeadsRun =>
                /\ DOMAIN representations =
                       EvoformerKeys \cup {"structure_module"}
                /\ representations["structure_module"] =
                       StructureModule([k \in EvoformerKeys |-> representations[k]],
                                       Batch0)["representations"]["structure_module"]
          /\ "predicted_lddt" \in HeadsRun =>
                iret["predicted_lddt"] = PredictedLDDTHead(representations, Batch0)
    /\ (pc = "loop" /\ recycle_idx > 0) =>
          /\ ret["representations"] = representations
          /\ "structure_module" \in DOMAIN ret["representations"]
          /\ prev.prev_msa_first_row = representations["msa_first_row"]
          /\ prev.prev_pair = representations["pair"]
          /\ \A h \in (DOMAIN ret) \ {"representations"} :
                "representations" \notin DOMAIN ret[h]
    /\ (pc = "done" /\ error = "none") =>
          /\ \A h \in (DOMAIN ret) \ {"representations"} :
                "representations" \notin DOMAIN ret[h]
          /\ args.return_representations =>
                "structure_module" \in DOMAIN ret["representations"]

C29_Witness ==
    /\ pc = "loop"
    /\ recycle_idx > 0
    /\ {"structure_module", "predicted_lddt", "distogram"} \subseteq DOMAIN ret
    /\ "structure_module" \in DOMAIN ret["representations"]
    /\ ret["predicted_lddt"].logits.of =
           Digest(ret["representations"]["structure_module"])
    /\ prev.prev_pair = ret["representations"]["pair"]

(***************************************************************************)
(* dgram_from_positions and the recycled positions of                      *)
(* EmbeddingsAndEvoformer.forward.  Coordinates and breaks are integers.   *)
(***************************************************************************)
MaxCoord == 2

MaxPos == 2

\* paddle.to_tensor([1e8]): the upper break of the last bin
UpperLimit == 100000000

\* paddle.linspace(min_bin, max_bin, num_bins), the breaks 0-based
Linspace(min_bin, max_bin, num_bins) ==
    [shape |-> <<num_bins>>,
     at |-> [idx \in Indices(<<num_bins>>) |->
                IF num_bins = 1 THEN min_bin
                ELSE min_bin + (idx[1] * (max_bin - min_bin)) \div (num_bins - 1)]]

\* paddle.square
Square(t) == [t EXCEPT !.at = [idx \in DOMAIN t.at |-> t.at[idx] * t.at[idx]]]

\* paddle.concat([lower_breaks[1:], paddle.to_tensor([1e8])])
UpperBreaks(lower_breaks) ==
    LET n == lower_breaks.shape[1]
    IN  [shape |-> <<n>>,
         at |-> [idx \in Indices(<<n>>) |->
                    IF idx[1] + 1 < n THEN lower_breaks.at[<<idx[1] + 1>>]
                    ELSE UpperLimit]]

\* paddle.sum(_squared_difference(unsqueeze(positions, -2),
\*                                unsqueeze(positions, -3)), axis=-1, keepdim=True)
SquaredDistances(positions) ==
    LET B == positions.shape[1]
        N == positions.shape[2]
        C == positions.shape[3]
        shape == <<B, N, N, 1>>
        diff(idx, c) == positions.at[<<idx[1], idx[2], c>>]
                          - positions.at[<<idx[1], idx[3], c>>]
        RECURSIVE sum(_, _)
        sum(idx, c) == IF c = C THEN 0
                       ELSE diff(idx, c) * diff(idx, c) + sum(idx, c + 1)
    IN  [shape |-> shape,
         at |-> [idx \in Indices(shape) |-> sum(idx, 0)]]

\* Greater with equality let through
GreaterOrEqual(x, y) == IF x >= y THEN 1 ELSE 0

\* (x > y).astype('float32') of one element
Greater(x, y) == IF x > y THEN 1 ELSE 0

\* (dist2 > lower_breaks).astype('float32') * (dist2 < upper_breaks).astype('float32'),
\* the breaks broadcast along the last axis of dist2
Dgram(dist2, lower_breaks, upper_breaks) ==
    LET shape == Front(dist2.shape) \o lower_breaks.shape
    IN  [shape |-> shape,
         at |-> [idx \in Indices(shape) |->
                    LET d == dist2.at[Front(idx) \o <<0>>]
                        b == <<idx[Len(idx)]>>
                    IN  Greater(d, lower_breaks.at[b])
                          * Greater(upper_breaks.at[b], d)]]

\* the positions of one residue: along x up to MaxCoord, along z at the
\* origin or at the distance whose square is the last upper break
Points ==
    LET RECURSIVE root(_, _)
        \* the greatest c in lo..hi with c * c <= UpperLimit
        root(lo, hi) ==
            IF lo = hi THEN lo
            ELSE LET mid == (lo + hi + 1) \div 2
                 IN  IF mid <= UpperLimit \div mid THEN root(mid, hi)
                     ELSE root(lo, mid - 1)
        far == root(1, UpperLimit)
    IN  {<<x, 0, z>> : x \in 0..MaxCoord, z \in {0, far}}

InitDgram ==
    /\ \E R \in 0..0 :
          config = MakeConfig(R, FALSE, TRUE, TRUE, <<Item("structure_module", 1)>>)
    /\ used_heads = UsedHeads(config.heads)
    /\ batch = MakeBatch(1, 1, 2, 1, TRUE, -1)
    /\ args = [ensemble_representations |-> TRUE,
               return_representations |-> TRUE]
    /\ Idle
    /\ NoRunModel
    /\ \E min_bin \in 0..1, step \in 1..2, num_bins \in 1..NumBins,
          flags \in {<<TRUE, TRUE>>, <<TRUE, FALSE>>, <<FALSE, TRUE>>} :
          fn = [name |-> "dgram",
                recycle_pos |-> flags[1],
                has_prev_pos |-> flags[2],
                prev_pos |-> [num_bins |-> num_bins,
                              min_bin |-> min_bin,
                              max_bin |-> min_bin + step * (num_bins - 1)]]
    /\ \E N \in 1..MaxPos : \E pts \in [0..(N - 1) -> Points] :
          fn_args = <<[shape |-> <<1, N, 3>>,
                       at |-> [idx \in Indices(<<1, N, 3>>) |->
                                  pts[idx[2]][idx[3] + 1]]]>>
    /\ locals = [lower_breaks |-> <<>>, upper_breaks |-> <<>>,
                 dist2 |-> <<>>, dgram |-> <<>>]
    /\ fn_pc = "call"
    /\ fn_ret = <<>>

\* `if self.config.recycle_pos and 'prev_pos' in batch:` is false
DgramSkipped ==
    /\ fn_pc = "call"
    /\ fn.name = "dgram"
    /\ ~(fn.recycle_pos /\ fn.has_prev_pos)
    /\ fn_pc' = "returned"
    /\ UNCHANGED <<config, used_heads, batch, args, driverVars, ipc, iterVars,
                   error, histVars, runModelVars, fn, fn_args, locals, fn_ret>>

\* lower_breaks = square(linspace(...)); upper_breaks = concat(...)
DgramBreaks ==
    /\ fn_pc = "call"
    /\ fn.name = "dgram"
    /\ fn.recycle_pos /\ fn.has_prev_pos
    /\ LET lower_breaks == Square(Linspace(fn.prev_pos.min_bin,
                                           fn.prev_pos.max_bin,
                                           fn.prev_pos.num_bins))
       IN  locals' = [locals EXCEPT
                         !.lower_breaks = <<lower_breaks>>,
                         !.upper_breaks = <<UpperBreaks(lower_breaks)>>]
    /\ fn_pc' = "breaks"
    /\ UNCHANGED <<config, used_heads, batch, args, driverVars, ipc, iterVars,
                   error, histVars, runModelVars, fn, fn_args, fn_ret>>

\* dist2 = paddle.sum(_squared_difference(...), axis=-1, keepdim=True)
DgramDist2 ==
    /\ fn_pc = "breaks"
    /\ locals' = [locals EXCEPT !.dist2 = <<SquaredDistances(fn_args[1])>>]
    /\ fn_pc' = "dist2"
    /\ UNCHANGED <<config, used_heads, batch, args, driverVars, ipc, iterVars,
                   error, histVars, runModelVars, fn, fn_args, fn_ret>>

\* dgram = (dist2 > lower_breaks) * (dist2 < upper_breaks); return dgram
DgramCompare ==
    /\ fn_pc = "dist2"
    /\ locals' = [locals EXCEPT !.dgram =
                     <<Dgram(locals.dist2[1], locals.lower_breaks[1],
                             locals.upper_breaks[1])>>]
    /\ fn_ret' = locals'.dgram
    /\ fn_pc' = "returned"
    /\ UNCHANGED <<config, used_heads, batch, args, driverVars, ipc, iterVars,
                   error, histVars, runModelVars, fn, fn_args>>

NextDgram ==
    \/ DgramSkipped
    \/ DgramBreaks
    \/ DgramDist2
    \/ DgramCompare

SpecDgram == InitDgram /\ [][NextDgram]_vars

\* the break b of the claim: the b-th of num_bins values evenly spaced from
\* min_bin to max_bin
LowerBreak(b) ==
    IF fn.prev_pos.num_bins = 1 THEN fn.prev_pos.min_bin
    ELSE fn.prev_pos.min_bin
           + (b * (fn.prev_pos.max_bin - fn.prev_pos.min_bin))
               \div (fn.prev_pos.num_bins - 1)

\* the upper break of bin b: the square of the next lower break, the last
\* one the limit
UpperBreak(b) ==
    IF b + 1 < fn.prev_pos.num_bins THEN LowerBreak(b + 1) * LowerBreak(b + 1)
    ELSE UpperLimit

\* the squared distance of the positions i and j
Dist2(i, j) ==
    LET d(c) == fn_args[1].at[<<0, i, c>>] - fn_args[1].at[<<0, j, c>>]
    IN  d(0) * d(0) + d(1) * d(1) + d(2) * d(2)

\* the bins set for the pair (i, j)
BinsSet(i, j) ==
    {b \in 0..(fn.prev_pos.num_bins - 1) : fn_ret[1].at[<<0, i, j, b>>] = 1}

\* C30: the histogram of dgram_from_positions has, for every pair of
\* positions, at most one bin set; bin b is set iff
\* lower_break[b]^2 < dist2 < upper_break[b], both strictly, so a squared
\* distance equal to a break, or at most min_bin^2, sets no bin; every
\* diagonal pair and every pair of all-zero positions has no bin set, and
\* the histogram is symmetric in the two residues.
C30_Dgram ==
    fn_pc = "returned" /\ fn_ret # <<>> =>
        LET N     == fn_args[1].shape[2]
            bins  == 0..(fn.prev_pos.num_bins - 1)
            dgram == fn_ret[1]
        IN  /\ dgram.shape = <<1, N, N, fn.prev_pos.num_bins>>
            /\ \A idx \in DOMAIN dgram.at : dgram.at[idx] \in {0, 1}
            /\ \A i, j \in 0..(N - 1) :
                  /\ \A b \in bins :
                        b \in BinsSet(i, j) <=>
                            /\ LowerBreak(b) * LowerBreak(b) < Dist2(i, j)
                            /\ Dist2(i, j) < UpperBreak(b)
                  /\ Cardinality(BinsSet(i, j)) <= 1
                  /\ (\E b \in bins :
                         \/ Dist2(i, j) = LowerBreak(b) * LowerBreak(b)
                         \/ Dist2(i, j) = UpperBreak(b))
                        => BinsSet(i, j) = {}
                  /\ Dist2(i, j) <= fn.prev_pos.min_bin * fn.prev_pos.min_bin
                        => BinsSet(i, j) = {}
                  /\ BinsSet(i, j) = BinsSet(j, i)
                  /\ BinsSet(i, i) = {}
            /\ (\A idx \in DOMAIN fn_args[1].at : fn_args[1].at[idx] = 0)
                  => \A idx \in DOMAIN dgram.at : dgram.at[idx] = 0

C30_Witness ==
    /\ fn_pc = "returned"
    /\ fn_ret # <<>>
    /\ fn.prev_pos.num_bins = NumBins
    /\ fn_args[1].shape = <<1, MaxPos, 3>>
    /\ Dist2(0, 1) > LowerBreak(0) * LowerBreak(0)
    /\ Dist2(0, 1) < UpperBreak(0)
    /\ BinsSet(0, 1) = {0}
    /\ BinsSet(1, 0) = {0}
    /\ BinsSet(0, 0) = {}
    /\ BinsSet(1, 1) = {}
====
